---- MODULE Spec2Model ----
(***************************************************************************)
(* devlog collector: the bounded Buffer store (devlog-buffer) and the      *)
(* resumable backfill engine (devlog-backfill), with the producers that    *)
(* share the buffer (devlog-cli).                                          *)
(*                                                                         *)
(* Three groups of state:                                                  *)
(*   - the events table of the buffer database;                            *)
(*   - producer tasks that call Buffer::store concurrently;                *)
(*   - one backfill invocation at a time on one (agent, file) pair, the    *)
(*     backfill_state table it checkpoints into and the log file it reads. *)
(*                                                                         *)
(* Specifications:                                                         *)
(*   Spec        backfill of one file, with crashes, failing I/O, failing  *)
(*               stores and failing state writes, and re-invocations       *)
(*   SpecPaused  the same, started from a persisted row in status paused   *)
(*   SpecCrash   the same steps with crashes as the only interruptions     *)
(*   SpecCrlf    SpecCrash on files whose lines all end in CR LF           *)
(*   SpecDir     backfill called on a file or on a directory, with an      *)
(*               agent name that may be missing from the registry          *)
(*   SpecBuf     store / delete / clear called one at a time               *)
(*   SpecConc    several producers whose store calls interleave at their   *)
(*               await points                                              *)
(***************************************************************************)
EXTENDS Integers, Sequences, FiniteSets, TLC

(* ------------------------------ bounds -------------------------------- *)
\* chunks (body + line terminator) a log file is made of
MaxLines == 2
\* largest batch_size passed to backfill
MaxBatch == 2
\* backfill invocations on the file (first run plus re-invocations)
MaxRuns == 2
\* largest configured max_size in the buffer-only specifications
MaxCap == 2
\* rows ever inserted in the buffer-only specifications
MaxStores == 4
\* wall-clock seconds that pass in the buffer-only specifications
MaxClock == 2
\* distinct event ids the external producers send
MaxEventId == 2
\* lines of the files whose lines all end in CR LF
MaxCrlfLines == 3
\* largest limit passed to retrieve
MaxLimit == 2
\* longest JSON array posted to /events
MaxArray == 2
\* longest text line given to the Cursor adapter
MaxTextLen == 3
\* requests of a Copilot chat session
MaxRequests == 2
\* items of the response list of a Copilot request
MaxResponseItems == 2
\* file-change notifications the watcher receives
MaxNotifications == 3

(* ------------------------- program constants -------------------------- *)
\* Buffer::new: max_size 0 means 10000
DefaultMaxSize == 10000
\* serde_json Number::as_i64: 10^18 is the largest power of ten in an i64
I64Exponent == 18
\* chrono timestamp_opt: 10^12 is the largest power of ten that is a number
\* of seconds of a DateTime<Utc>
ChronoSecondsExponent == 12
\* chrono timestamp_millis_opt: the same for a number of milliseconds
ChronoMillisExponent == 15
\* CopilotAdapter::parse_log_file: milliseconds added to the request's
\* timestamp for a tool invocation, a text edit and the response
ToolDeltaMs == 100
EditDeltaMs == 200
ResponseDeltaMs == 1000

VARIABLES
    rows,            \* events table, in rowid order: [id, event_id, created_at, data]
    nextRowId,       \* AUTOINCREMENT counter of the events table
    clock,           \* Utc::now().timestamp(), seconds
    max_size,        \* Buffer.max_size
    lastOp,          \* the operation or step that completed last
    spc,             \* per producer: position inside Buffer::store
    scount,          \* per producer: the count read at the start of store
    sevent,          \* per producer: the event being stored
    screated,        \* per producer: the Utc::now() bound to the INSERT
    call,            \* the latest read of the buffer (retrieve, count), if no
                     \* write followed it
    ret,             \* what that call returned
    http_queue,      \* the POST /events request being handled
    inv,             \* per invocation of two on the same file: its position
                     \* and its BackfillState
    line_in,         \* the line given to CursorAdapter::parse_log_line
    line_out,        \* what parse_log_line returned for it
    watcher,         \* Watcher: spawned handle_event tasks, the event channel
    fileBytes,       \* content of the log file (of every file of the directory)
    is_dir,          \* options.log_path.is_dir()
    dir_files,       \* the files WalkDir finds under the directory, in its order
    batch_size,      \* BackfillOptions.batch_size
    agent_name,      \* BackfillOptions.agent_name
    table,           \* backfill_state table: a set of rows
    nextStateId,     \* AUTOINCREMENT counter of backfill_state
    pc,              \* position of the backfill invocation
    state,           \* the invocation's in-memory BackfillState
    pos,             \* true byte position of the reader
    current_offset,  \* the running byte counter of backfill_file_line_by_line
    batch,           \* events parsed and not yet flushed
    k,               \* index of the next event of the batch to store
    file_size,       \* metadata().len() taken at open
    err,             \* the error that ended the parse
    result,          \* what the last invocation returned
    runs,            \* invocations started so far
    log_path,        \* options.log_path, then the file backfill_file works on
    walk,            \* log_files of backfill_directory
    walk_results     \* what backfill_file returned for the files walked so far

bufVars == <<rows, nextRowId, clock, max_size>>
concVars == <<spc, scount, sevent, screated>>
callVars == <<call, ret, http_queue>>
raceVars == <<inv>>
adapterVars == <<line_in, line_out>>
watchVars == <<watcher>>
fileVars == <<fileBytes, batch_size, agent_name, is_dir, dir_files>>
memVars == <<state, pos, current_offset, batch, k, file_size, err>>
walkVars == <<log_path, walk, walk_results>>
runVars == <<table, nextStateId, pc, result, runs, walkVars>>
vars == <<bufVars, lastOp, concVars, callVars, raceVars, adapterVars, watchVars, fileVars,
          memVars, runVars>>

(* ------------------------------ options ------------------------------- *)
\* Option<T>: None is the empty sequence, Some(v) is <<v>>
None == <<>>

Some(v) == <<v>>

(* =========================== Buffer store ============================= *)

\* Buffer::count: SELECT COUNT(*) FROM events
Count(rs) == Len(rs)

\* ORDER BY created_at ASC: rows of one second come in rowid order, the order
\* of the entries of idx_created_at
RowBefore(a, b) ==
    \/ a.created_at < b.created_at
    \/ a.created_at = b.created_at /\ a.id <= b.id

\* a plausible slip: ORDER BY created_at DESC
NewestRowIndex(rs) ==
    CHOOSE i \in 1..Len(rs) : \A j \in 1..Len(rs) : RowBefore(rs[j], rs[i])

\* SELECT id FROM events ORDER BY created_at ASC LIMIT 1
OldestRowIndex(rs) ==
    CHOOSE i \in 1..Len(rs) : \A j \in 1..Len(rs) : RowBefore(rs[i], rs[j])

RemoveAt(rs, i) == SubSeq(rs, 1, i - 1) \o SubSeq(rs, i + 1, Len(rs))

\* Buffer::evict_oldest: on an empty table the subquery is NULL and nothing goes
EvictOldest(rs) == IF rs = <<>> THEN rs ELSE RemoveAt(rs, OldestRowIndex(rs))

\* a plausible slip: count > max_size
NeedsEvictStrict(count, max) == count > max

\* Buffer::store: if count >= self.max_size
NeedsEvict(count, max) == count >= max

(* ------------------- AgentEvent and its JSON form --------------------- *)
\* the EVENT_TYPE_* constants
EventTypes ==
    {"llm_request", "llm_response", "tool_use", "file_read", "file_write",
     "file_modify", "command_execution", "user_interaction", "error_encountered",
     "session_start", "session_end"}

EmptyMap == [x \in {} |-> x]

\* the fields of AgentEvent
AgentEventFields ==
    {"id", "timestamp", "event_type", "agent_id", "agent_version", "session_id",
     "project_id", "machine_id", "workspace_id", "legacy_project_id", "context",
     "data", "metrics"}

\* the fields of AgentEvent of type Option, skipped when None
OptionFields == {"machine_id", "workspace_id", "legacy_project_id", "metrics"}

\* the fields of EventMetrics, all of type Option, skipped when None
MetricsFields ==
    {"token_count", "duration_ms", "prompt_tokens", "response_tokens", "cost"}

\* serde(rename_all = "camelCase")
JsonKey(f) ==
    CASE f = "event_type" -> "eventType"
      [] f = "agent_id" -> "agentId"
      [] f = "agent_version" -> "agentVersion"
      [] f = "session_id" -> "sessionId"
      [] f = "project_id" -> "projectId"
      [] f = "machine_id" -> "machineId"
      [] f = "workspace_id" -> "workspaceId"
      [] f = "legacy_project_id" -> "legacyProjectId"
      [] f = "token_count" -> "tokenCount"
      [] f = "duration_ms" -> "durationMs"
      [] f = "prompt_tokens" -> "promptTokens"
      [] f = "response_tokens" -> "responseTokens"
      [] OTHER -> f

\* Serialize for EventMetrics: the fields that are Some, by their JSON key
MetricsToJson(m) ==
    LET kept == {f \in MetricsFields : m[f] # None}
    IN [key \in {JsonKey(f) : f \in kept} |->
            m[CHOOSE f \in kept : JsonKey(f) = key][1]]

\* Deserialize for EventMetrics: a missing key is None
MetricsFromJson(j) ==
    [f \in MetricsFields |->
        IF JsonKey(f) \in DOMAIN j THEN Some(j[JsonKey(f)]) ELSE None]

\* skip_serializing_if: Option::is_none, HashMap::is_empty on context
SkippedField(e, f) ==
    \/ f \in OptionFields /\ e[f] = None
    \/ f = "context" /\ DOMAIN e[f] = {}

\* a plausible slip: an absent optional field is written with a default value
ToJsonWithDefaults(e) ==
    [key \in {JsonKey(f) : f \in DOMAIN e} |->
        LET f == CHOOSE f \in DOMAIN e : JsonKey(f) = key IN
        IF f \in OptionFields /\ e[f] = None
        THEN (IF f = "metrics" THEN EmptyMap ELSE 0)
        ELSE IF f = "metrics" THEN MetricsToJson(e[f][1])
        ELSE IF f \in OptionFields THEN e[f][1]
        ELSE e[f]]

\* serde_json::to_string(event): the fields that are not skipped, by their
\* JSON key, an Option by the value it holds
ToJson(e) ==
    LET kept == {f \in DOMAIN e : ~SkippedField(e, f)}
    IN [key \in {JsonKey(f) : f \in kept} |->
            LET f == CHOOSE f \in kept : JsonKey(f) = key IN
            IF f = "metrics" THEN MetricsToJson(e[f][1])
            ELSE IF f \in OptionFields THEN e[f][1]
            ELSE e[f]]

\* the fields of AgentEvent that have no default
RequiredFields == AgentEventFields \ (OptionFields \cup {"context"})

\* serde_json::from_str::<AgentEvent>: None when a required key is missing;
\* a missing Option is None, a missing context is empty, unknown keys are
\* ignored
FromJson(j) ==
    IF \E f \in RequiredFields : JsonKey(f) \notin DOMAIN j THEN None
    ELSE Some([f \in AgentEventFields |->
                 IF f = "metrics"
                 THEN (IF "metrics" \in DOMAIN j
                       THEN Some(MetricsFromJson(j["metrics"])) ELSE None)
                 ELSE IF f \in OptionFields
                 THEN (IF JsonKey(f) \in DOMAIN j THEN Some(j[JsonKey(f)]) ELSE None)
                 ELSE IF f = "context"
                 THEN (IF "context" \in DOMAIN j THEN j["context"] ELSE EmptyMap)
                 ELSE j[JsonKey(f)]])

\* Buffer::store: the INSERT
InsertRow(rs, e, now, rid) ==
    Append(rs, [id |-> rid, event_id |-> e.id, created_at |-> now, data |-> ToJson(e)])

\* Buffer::store run without interruption: count, evict when full, insert
StoreRows(rs, e, max, now, rid) ==
    InsertRow(IF NeedsEvict(Count(rs), max) THEN EvictOldest(rs) ELSE rs, e, now, rid)

\* a plausible slip: only the first matching row is deleted
DeleteFirstMatch(rs, ids) ==
    IF \E i \in 1..Len(rs) : rs[i].event_id \in ids
    THEN RemoveAt(rs, CHOOSE i \in 1..Len(rs) :
                          /\ rs[i].event_id \in ids
                          /\ \A j \in 1..(i - 1) : rs[j].event_id \notin ids)
    ELSE rs

\* Buffer::delete: DELETE FROM events WHERE event_id IN (ids); nothing on no ids
DeleteRows(rs, ids) ==
    IF ids = {} THEN rs ELSE SelectSeq(rs, LAMBDA r : r.event_id \notin ids)

\* ORDER BY created_at ASC
RECURSIVE OrderByCreatedAt(_)
OrderByCreatedAt(rs) ==
    IF rs = <<>> THEN <<>>
    ELSE <<rs[OldestRowIndex(rs)]>> \o OrderByCreatedAt(RemoveAt(rs, OldestRowIndex(rs)))

\* a plausible slip: the limit is applied from the newest end
TakeLast(rs, limit) ==
    IF limit < 0 \/ limit >= Len(rs) THEN rs
    ELSE SubSeq(rs, Len(rs) - limit + 1, Len(rs))

\* LIMIT ?: the first limit rows; a negative limit is no limit in SQLite
TakeLimit(rs, limit) ==
    IF limit < 0 \/ limit >= Len(rs) THEN rs ELSE SubSeq(rs, 1, limit)

\* Buffer::retrieve: the selected rows' data, each deserialized; an error when
\* one of them does not deserialize
Retrieve(rs, limit) ==
    LET sel == TakeLimit(OrderByCreatedAt(rs), limit) IN
    IF \E i \in 1..Len(sel) : FromJson(sel[i].data) = None
    THEN [ok |-> FALSE, events |-> <<>>]
    ELSE [ok |-> TRUE, events |-> [i \in 1..Len(sel) |-> FromJson(sel[i].data)[1]]]

\* a plausible slip: retrieve hands the events over and removes them
RowsAfterDrain(rs, limit) ==
    LET sorted == OrderByCreatedAt(rs) IN
    IF limit < 0 \/ limit >= Len(rs) THEN <<>> ELSE SubSeq(sorted, limit + 1, Len(sorted))

\* Buffer::retrieve and Buffer::count are SELECT statements: the table after
\* them
RowsAfterSelect(rs, limit) == rs

\* an event as a producer outside backfill (watcher, HTTP, WebSocket) sends
\* it, with every optional field absent
ExternalEvent(n) ==
    [id |-> <<0, n>>, timestamp |-> 0, event_type |-> "llm_request",
     agent_id |-> "ext", agent_version |-> "", session_id |-> "s",
     project_id |-> 0, machine_id |-> None, workspace_id |-> None,
     legacy_project_id |-> None, context |-> EmptyMap, data |-> [message |-> "m"],
     metrics |-> None]

ExternalEvents == {ExternalEvent(n) : n \in 1..MaxEventId}

ExternalIds == {e.id : e \in ExternalEvents}

Producers == {"watcher", "http", "ws"}

(* ---------------- the buffer, one call at a time ---------------------- *)

\* call and ret hold the latest read of the buffer (retrieve, count) and what
\* it returned, until the next write
NoRead == [op |-> "none"]

NoResult == [ok |-> TRUE, events |-> <<>>]

BufStore(e) ==
    /\ nextRowId <= MaxStores
    /\ rows' = StoreRows(rows, e, max_size, clock, nextRowId)
    /\ nextRowId' = nextRowId + 1
    /\ lastOp' = "store"
    /\ call' = NoRead
    /\ ret' = NoResult
    /\ UNCHANGED <<clock, max_size, concVars, fileVars, adapterVars, watchVars, raceVars, http_queue, memVars, runVars>>

\* Buffer::new on a database file that already holds events: the schema is
\* created only if it is missing, the rows stay, max_size is the configured
\* one (10000 when the configuration says 0)
MaxSizeOf(configured) == IF configured = 0 THEN DefaultMaxSize ELSE configured

BufNew(configured) ==
    /\ max_size' = MaxSizeOf(configured)
    /\ lastOp' = "new"
    /\ call' = NoRead
    /\ ret' = NoResult
    /\ UNCHANGED <<rows, nextRowId, clock, concVars, fileVars, adapterVars, watchVars, raceVars, http_queue,
                   memVars, runVars>>

\* the statements of Buffer::store that end the call with `?` when they fail
StoreFailurePoints == {"count", "evict", "insert"}

\* the rows after a store call that returned an error at the given statement:
\* the statements before it have run, each as its own implicit transaction
StoreRowsOnError(rs, max, at) ==
    IF at = "insert" /\ NeedsEvict(Count(rs), max) THEN EvictOldest(rs) ELSE rs

\* Buffer::store returning Err
BufStoreErr(at) ==
    /\ at = "evict" => NeedsEvict(Count(rows), max_size)
    /\ rows' = StoreRowsOnError(rows, max_size, at)
    /\ lastOp' = "store_err"
    /\ call' = NoRead
    /\ ret' = NoResult
    /\ UNCHANGED <<nextRowId, clock, max_size, concVars, fileVars, adapterVars, watchVars, raceVars, http_queue,
                   memVars, runVars>>

BufDelete(ids) ==
    /\ rows' = DeleteRows(rows, ids)
    /\ lastOp' = "delete"
    /\ call' = NoRead
    /\ ret' = NoResult
    /\ UNCHANGED <<nextRowId, clock, max_size, concVars, fileVars, adapterVars, watchVars, raceVars, http_queue,
                   memVars, runVars>>

\* Buffer::retrieve(limit)
BufRetrieve(limit) ==
    /\ rows' = RowsAfterSelect(rows, limit)
    /\ lastOp' = "retrieve"
    /\ call' = [op |-> "retrieve", limit |-> limit]
    /\ ret' = Retrieve(rows, limit)
    /\ UNCHANGED <<nextRowId, clock, max_size, concVars, fileVars, adapterVars, watchVars, raceVars, http_queue,
                   memVars, runVars>>

\* Buffer::count()
BufCount ==
    /\ rows' = RowsAfterSelect(rows, 0)
    /\ lastOp' = "count"
    /\ call' = [op |-> "count"]
    /\ ret' = [ok |-> TRUE, events |-> <<>>, count |-> Count(rows)]
    /\ UNCHANGED <<nextRowId, clock, max_size, concVars, fileVars, adapterVars, watchVars, raceVars, http_queue,
                   memVars, runVars>>

BufClear ==
    /\ rows' = <<>>
    /\ lastOp' = "clear"
    /\ call' = NoRead
    /\ ret' = NoResult
    /\ UNCHANGED <<nextRowId, clock, max_size, concVars, fileVars, adapterVars, watchVars, raceVars, http_queue,
                   memVars, runVars>>

\* a second of wall-clock time passes
Tick ==
    /\ clock < MaxClock
    /\ clock' = clock + 1
    /\ UNCHANGED <<rows, nextRowId, max_size, lastOp, concVars, fileVars, adapterVars, watchVars, raceVars, callVars, memVars, runVars>>

(* ------------------ the HTTP and WebSocket server --------------------- *)

\* http_queue is the request that ingest_events is handling: the Vec of
\* events the Json extractor produced and how many of them the loop has
\* passed
HttpIdle == [open |-> FALSE, events |-> <<>>, done |-> 0]

\* an event type that is not one of the EVENT_TYPE_* constants
CustomEventType == "custom_event"

\* the events a client sends: of a known event type or of another
ClientEvents ==
    {ExternalEvent(1), ExternalEvent(2),
     [ExternalEvent(2) EXCEPT !.event_type = CustomEventType]}

\* a JSON object that lacks required keys of AgentEvent
MalformedJson == [id |-> <<0, 1>>, eventType |-> "llm_request"]

\* the JSON objects a client sends
ClientJson == {ToJson(e) : e \in ClientEvents} \cup {MalformedJson}

\* the sequences over S of length at most n
SeqsUpTo(S, n) == UNION {[1..m -> S] : m \in 0..n}

\* the JSON arrays a client posts
HttpBodies == SeqsUpTo(ClientJson, MaxArray)

\* Json<Vec<AgentEvent>>: every element deserializes
BodyAccepted(body) == \A i \in 1..Len(body) : FromJson(body[i]) # None

\* a plausible slip: the events are taken from the end of the array
NextEventFromEnd(q) == q.events[Len(q.events) - q.done]

\* for event in events: the event the loop passes next
NextEvent(q) == q.events[q.done + 1]

\* POST /events with a body the extractor accepts: ingest_events starts
HttpPost(body) ==
    /\ ~http_queue.open
    /\ nextRowId + Len(body) <= MaxStores + 1
    /\ BodyAccepted(body)
    /\ http_queue' = [open |-> TRUE,
                      events |-> [i \in 1..Len(body) |-> FromJson(body[i])[1]],
                      done |-> 0]
    /\ lastOp' = "post"
    /\ UNCHANGED <<bufVars, concVars, call, ret, fileVars, adapterVars, watchVars, raceVars, memVars, runVars>>

\* POST /events with a body the extractor rejects: the handler does not run
HttpReject(body) ==
    /\ ~http_queue.open
    /\ ~BodyAccepted(body)
    /\ lastOp' = "rejected"
    /\ UNCHANGED <<bufVars, concVars, callVars, fileVars, adapterVars, watchVars, raceVars, memVars, runVars>>

\* ingest_events: one round of the loop, state.buffer.store(&event).await
HttpStoreNext ==
    /\ http_queue.open
    /\ http_queue.done < Len(http_queue.events)
    /\ rows' = StoreRows(rows, NextEvent(http_queue), max_size, clock, nextRowId)
    /\ nextRowId' = nextRowId + 1
    /\ http_queue' = [http_queue EXCEPT !.done = @ + 1]
    /\ lastOp' = "store"
    /\ call' = NoRead
    /\ ret' = NoResult
    /\ UNCHANGED <<clock, max_size, concVars, fileVars, adapterVars, watchVars, raceVars, memVars, runVars>>

\* ingest_events: the loop is over, {"status": "success"}
HttpRespond ==
    /\ http_queue.open
    /\ http_queue.done = Len(http_queue.events)
    /\ http_queue' = HttpIdle
    /\ lastOp' = "success"
    /\ UNCHANGED <<bufVars, concVars, call, ret, fileVars, adapterVars, watchVars, raceVars, memVars, runVars>>

\* handle_socket: a text message that deserializes is stored
WsStore(text) ==
    /\ ~http_queue.open
    /\ nextRowId <= MaxStores
    /\ FromJson(text) # None
    /\ rows' = StoreRows(rows, FromJson(text)[1], max_size, clock, nextRowId)
    /\ nextRowId' = nextRowId + 1
    /\ lastOp' = "store"
    /\ call' = NoRead
    /\ ret' = NoResult
    /\ UNCHANGED <<clock, max_size, concVars, http_queue, fileVars, adapterVars, watchVars, raceVars, memVars, runVars>>

\* handle_socket: a text message that does not deserialize is passed over
WsIgnore(text) ==
    /\ ~http_queue.open
    /\ FromJson(text) = None
    /\ lastOp' = "ws_ignored"
    /\ UNCHANGED <<bufVars, concVars, callVars, fileVars, adapterVars, watchVars, raceVars, memVars, runVars>>

(* --------------- producers storing concurrently ----------------------- *)

InFlight == Cardinality({p \in Producers : spc[p] # "idle"})

\* let count = self.count().await?; then the comparison with max_size
StoreCount(p, e) ==
    /\ spc[p] = "idle"
    /\ nextRowId + InFlight <= MaxStores
    /\ scount' = [scount EXCEPT ![p] = Count(rows)]
    /\ sevent' = [sevent EXCEPT ![p] = e]
    /\ spc' = [spc EXCEPT ![p] =
                 IF NeedsEvict(Count(rows), max_size) THEN "evict" ELSE "insert"]
    /\ screated' = [screated EXCEPT ![p] =
                      IF NeedsEvict(Count(rows), max_size) THEN @ ELSE clock]
    /\ UNCHANGED <<bufVars, lastOp, fileVars, adapterVars, watchVars, raceVars, callVars, memVars, runVars>>

\* self.evict_oldest().await?; then the query is built and Utc::now() bound
StoreEvict(p) ==
    /\ spc[p] = "evict"
    /\ rows' = EvictOldest(rows)
    /\ spc' = [spc EXCEPT ![p] = "insert"]
    /\ screated' = [screated EXCEPT ![p] = clock]
    /\ UNCHANGED <<nextRowId, clock, max_size, lastOp, scount, sevent,
                   fileVars, adapterVars, watchVars, raceVars, callVars, memVars, runVars>>

\* .execute(&self.pool).await: the INSERT with the values bound before it,
\* and store returns
StoreInsert(p) ==
    /\ spc[p] = "insert"
    /\ rows' = InsertRow(rows, sevent[p], screated[p], nextRowId)
    /\ nextRowId' = nextRowId + 1
    /\ spc' = [spc EXCEPT ![p] = "idle"]
    /\ screated' = [screated EXCEPT ![p] = 0]
    /\ lastOp' = "store"
    /\ UNCHANGED <<clock, max_size, scount, sevent, fileVars, adapterVars, watchVars, raceVars, callVars, memVars, runVars>>

(* ========================= Backfill engine ============================ *)

LogPath == "session.jsonl"

LogExt == "jsonl"

\* a directory given as options.log_path, and what WalkDir may find under it
DirPath == "logs"

DirNames == <<"logs/a.log", "logs/sub/b.json", "logs/c.md">>

\* path.extension()
ExtOf(path) ==
    CASE path = LogPath -> LogExt
      [] path = "logs/a.log" -> "log"
      [] path = "logs/sub/b.json" -> "json"
      [] path = "logs/c.md" -> "md"
      [] OTHER -> ""

\* the entries of s whose index is in I, in the order of s
PickSeq(s, I) ==
    LET F[i \in 0..Len(s)] ==
            IF i = 0 THEN <<>>
            ELSE IF i \in I THEN Append(F[i - 1], s[i]) ELSE F[i - 1]
    IN F[Len(s)]

\* the directories: every selection of the names
DirListings == {PickSeq(DirNames, I) : I \in SUBSET (1..Len(DirNames))}

\* backfill_directory: the extensions of a log file
HasLogExtension(ext) == ext \in {"log", "txt", "json", "jsonl", "ndjson"}

\* a plausible slip: every file of the directory is taken
WalkAllFiles(files) == files

\* backfill_directory: the WalkDir loop that collects log_files
WalkFiles(files) == SelectSeq(files, LAMBDA f : HasLogExtension(ExtOf(f)))

\* the adapters main registers, by the name each reports
Agents == {"claude", "github-copilot", "cursor"}

\* a plausible slip: a name that is not registered falls back to an adapter
AnyAdapterFound(name) == TRUE

\* backfill: self.registry.get(&options.agent_name) is Some
AdapterFound(name) == name \in Agents

(* ----------------------------- the file ------------------------------- *)
Bodies == {<<>>, <<"k">>, <<"x">>}

Terminators == {<<>>, <<"LF">>, <<"CR", "LF">>}

Chunks == {b \o t : b \in Bodies, t \in Terminators}

RECURSIVE Flatten(_)
Flatten(ss) == IF ss = <<>> THEN <<>> ELSE Head(ss) \o Flatten(Tail(ss))

\* every file made of at most MaxLines chunks
Files == {Flatten(ss) : ss \in UNION {[1..n -> Chunks] : n \in 0..MaxLines}}

\* lines that end in CR LF
CrlfChunks == {b \o <<"CR", "LF">> : b \in {<<>>, <<"k">>}}

\* every file made of at most MaxCrlfLines such lines
CrlfFiles == {Flatten(ss) : ss \in UNION {[1..n -> CrlfChunks] : n \in 0..MaxCrlfLines}}

\* the content of the files of a directory
DirFileContents == {<<>>, <<"k", "LF">>}


(* ---------------------- reading lines (tokio) ------------------------- *)
\* index of the first LF after byte position p, 0 when there is none
LFIndex(bytes, p) ==
    IF \E j \in (p + 1)..Len(bytes) : bytes[j] = "LF"
    THEN CHOOSE j \in (p + 1)..Len(bytes) :
             /\ bytes[j] = "LF"
             /\ \A i \in (p + 1)..(j - 1) : bytes[i] # "LF"
    ELSE 0

\* Lines::next_line drops the final LF and a CR right before it
StripCR(s) == IF s # <<>> /\ s[Len(s)] = "CR" THEN SubSeq(s, 1, Len(s) - 1) ELSE s

\* lines.next_line() at byte position p: None at end of file, else the line
\* without its terminator and the position after it
NextLine(bytes, p) ==
    IF p >= Len(bytes) THEN None
    ELSE LET j == LFIndex(bytes, p) IN
         IF j = 0
         THEN Some([line |-> SubSeq(bytes, p + 1, Len(bytes)), next |-> Len(bytes)])
         ELSE Some([line |-> StripCR(SubSeq(bytes, p + 1, j - 1)), next |-> j])

(* ----------------------------- adapters ------------------------------- *)
\* str::trim: CR is the only whitespace of the alphabet
RECURSIVE TrimStart(_)
TrimStart(s) == IF s # <<>> /\ Head(s) = "CR" THEN TrimStart(Tail(s)) ELSE s

RECURSIVE TrimEnd(_)
TrimEnd(s) ==
    IF s # <<>> /\ s[Len(s)] = "CR" THEN TrimEnd(SubSeq(s, 1, Len(s) - 1)) ELSE s

Trim(s) == TrimEnd(TrimStart(s))

\* the byte k alone is a well-formed entry of a recognised type; any other
\* non-empty text is not well-formed JSON
IsEntry(s) == s = <<"k">>

\* CursorAdapter::parse_plain_text_line: the line contains a keyword
HasKeyword(s) == \E i \in 1..Len(s) : s[i] = "k"

\* AgentAdapter::parse_log_line: "err", "none" or "event"
ParseLogLine(agent, line) ==
    IF agent = "github-copilot" THEN "err"
    ELSE LET t == Trim(line) IN
         IF t = <<>> THEN "none"
         ELSE IF IsEntry(t) THEN "event"
         ELSE IF agent = "cursor" /\ HasKeyword(t) THEN "event"
         ELSE "none"

\* BackfillManager::should_use_file_parsing
ShouldUseFileParsing(adapter_name, ext) == adapter_name = "copilot" /\ ext = "json"

(* ------------------------- backfill state ----------------------------- *)
\* impl ToString for BackfillStatus
StatusToString(st) ==
    CASE st = "New" -> "new"
      [] st = "InProgress" -> "in_progress"
      [] st = "Paused" -> "paused"
      [] st = "Completed" -> "completed"
      [] st = "Failed" -> "failed"

\* impl From<String> for BackfillStatus
StatusFromString(s) ==
    CASE s = "new" -> "New"
      [] s = "in_progress" -> "InProgress"
      [] s = "paused" -> "Paused"
      [] s = "completed" -> "Completed"
      [] s = "failed" -> "Failed"
      [] OTHER -> "New"

\* load_state when no row matches
FreshState(agent, path, now) ==
    [id |-> 0, agent_name |-> agent, log_file_path |-> path,
     last_byte_offset |-> 0, last_timestamp |-> None,
     total_events_processed |-> 0, status |-> "New", started_at |-> now,
     completed_at |-> None, error_message |-> None]

\* load_state: the row of (agent, path) when there is one
LoadState(tbl, agent, path, now) ==
    IF \E r \in tbl : r.agent_name = agent /\ r.log_file_path = path
    THEN LET r == CHOOSE r \in tbl : r.agent_name = agent /\ r.log_file_path = path
         IN [id |-> r.id, agent_name |-> r.agent_name,
             log_file_path |-> r.log_file_path,
             last_byte_offset |-> r.last_byte_offset,
             last_timestamp |-> r.last_timestamp,
             total_events_processed |-> r.total_events_processed,
             status |-> StatusFromString(r.status), started_at |-> r.started_at,
             completed_at |-> r.completed_at, error_message |-> r.error_message]
    ELSE FreshState(agent, path, now)

\* the row save_state writes for a state, under row id rid
RowOf(s, rid, started) ==
    [id |-> rid, agent_name |-> s.agent_name, log_file_path |-> s.log_file_path,
     last_byte_offset |-> s.last_byte_offset, last_timestamp |-> s.last_timestamp,
     total_events_processed |-> s.total_events_processed,
     status |-> StatusToString(s.status), started_at |-> started,
     completed_at |-> s.completed_at, error_message |-> s.error_message]

\* save_state: INSERT when id is 0, else UPDATE ... WHERE id = ? (started_at
\* is not among the updated columns)
SaveState(tbl, s, nid) ==
    IF s.id = 0
    THEN tbl \cup {RowOf(s, nid, s.started_at)}
    ELSE {IF r.id = s.id THEN RowOf(s, r.id, r.started_at) ELSE r : r \in tbl}

\* state.id = res.last_insert_rowid()
SavedId(s, nid) == IF s.id = 0 THEN nid ELSE s.id

\* a plausible slip: no early return for a processed file
NeverAlreadyProcessed(status) == FALSE

\* backfill_file: if state.status == BackfillStatus::Completed
IsAlreadyProcessed(status) == status = "Completed"

\* a plausible slip: the result of the first save is ignored
AfterFirstSaveIgnoringError(ok) == "open"

\* backfill_file: self.save_state(&mut state).await? before any parsing
AfterFirstSave(ok) == IF ok THEN "open" ELSE "idle"

\* a plausible slip: a re-invocation reads from the start of the file
SeekToStart(offset) == 0

\* if state.last_byte_offset > 0 { file.seek(SeekFrom::Start(offset)) }: the
\* position of the reader after it
SeekPosition(offset) == offset

\* a plausible slip: the separator is counted twice
AdvanceOffsetTwice(offset, line) == offset + Len(line) + 2

\* line_len = line.len() + 1; current_offset += line_len
AdvanceOffset(offset, line) == offset + Len(line) + 1

\* if batch.len() >= batch_size
FlushDue(b, size) == Len(b) >= size

\* the fields a flushed batch updates, before the checkpoint write
Checkpointed(s, b, offset) ==
    [s EXCEPT !.total_events_processed = @ + Len(b),
              !.last_byte_offset = offset,
              !.last_timestamp = IF b = <<>> THEN @ ELSE Some(b[Len(b)].timestamp)]

\* a plausible slip: the completion time is not recorded
CompletedStateNoTime(s, now) == [s EXCEPT !.status = "Completed"]

\* a plausible slip: the Ok arm records the time but not the status
CompletedStateStillInProgress(s, now) == [s EXCEPT !.completed_at = Some(now)]

\* backfill_file, Ok arm
CompletedState(s, now) ==
    [s EXCEPT !.status = "Completed", !.completed_at = Some(now)]

\* a plausible slip: a failed file is put back to New so that it restarts
FailedStateAsNew(s, e) == [s EXCEPT !.status = "New", !.error_message = Some(e)]

\* a plausible slip: the error text is not recorded
FailedStateNoMessage(s, e) == [s EXCEPT !.status = "Failed"]

\* backfill_file, Err arm
FailedState(s, e) == [s EXCEPT !.status = "Failed", !.error_message = Some(e)]

\* what the invocation holds in memory when it is not running
IdleState == FreshState("", "", 0)

\* the state as load_state would read it now
Persisted == LoadState(table, agent_name, LogPath, 0)

PersistedStatus == Persisted.status


(* ----------------------- one backfill invocation ---------------------- *)
\* the event an adapter makes of the line that starts at byte origin; its id
\* is a fresh Uuid, so no two parses give the same id; its timestamp is the
\* time of the parse (Utc::now(), which the adapters also fall back to)
NewEvent(run, origin, now) ==
    [id |-> <<run, origin + 1>>, origin |-> origin, timestamp |-> now]

\* the invocation is over: its memory is gone
ResetMem ==
    /\ state' = IdleState
    /\ pos' = 0
    /\ current_offset' = 0
    /\ batch' = <<>>
    /\ k' = 0
    /\ file_size' = 0
    /\ err' = ""

\* backfill_file returns res: to the caller of backfill, or into the loop of
\* backfill_directory, which logs an error and goes on
FileReturns(res) ==
    IF is_dir
    THEN /\ pc' = "walk"
         /\ walk_results' = Append(walk_results, res)
         /\ UNCHANGED result
    ELSE /\ pc' = "idle"
         /\ result' = res
         /\ UNCHANGED walk_results

\* backfill_file: load_state, the early return on Completed,
\* state.status = InProgress
BeginFile(path) ==
    LET s == LoadState(table, agent_name, path, clock) IN
    IF IsAlreadyProcessed(s.status)
    THEN /\ FileReturns("ok")
         /\ lastOp' = "already_processed"
         /\ UNCHANGED state
    ELSE /\ pc' = "save_in_progress"
         /\ result' = "running"
         /\ lastOp' = "load_state"
         /\ state' = [s EXCEPT !.status = "InProgress"]
         /\ UNCHANGED walk_results

\* backfill: the adapter is not in the registry
BackfillAdapterNotFound ==
    /\ pc = "idle"
    /\ runs < MaxRuns
    /\ ~AdapterFound(agent_name)
    /\ runs' = runs + 1
    /\ result' = "adapter_not_found"
    /\ lastOp' = "adapter_not_found"
    /\ UNCHANGED <<bufVars, concVars, fileVars, adapterVars, watchVars, raceVars, callVars, memVars, table, nextStateId, pc,
                   walkVars>>

\* backfill on a path that is not a directory -> backfill_file
BackfillFileBegin ==
    /\ pc = "idle"
    /\ runs < MaxRuns
    /\ AdapterFound(agent_name)
    /\ ~is_dir
    /\ runs' = runs + 1
    /\ BeginFile(log_path)
    /\ UNCHANGED <<bufVars, concVars, fileVars, adapterVars, watchVars, raceVars, callVars, pos, current_offset, batch, k,
                   file_size, err, table, nextStateId, log_path, walk>>

\* backfill on a directory -> backfill_directory: the walk that collects
\* log_files
BackfillDirectoryBegin ==
    /\ pc = "idle"
    /\ runs < MaxRuns
    /\ AdapterFound(agent_name)
    /\ is_dir
    /\ runs' = runs + 1
    /\ walk' = WalkFiles(dir_files)
    /\ walk_results' = <<>>
    /\ pc' = "walk"
    /\ result' = "running"
    /\ lastOp' = "walk_dir"
    /\ UNCHANGED <<bufVars, concVars, fileVars, adapterVars, watchVars, raceVars, callVars, memVars, table, nextStateId,
                   log_path>>

\* backfill_directory: for file in log_files { self.backfill_file(...) }
DirFileBegin ==
    /\ pc = "walk"
    /\ Len(walk_results) < Len(walk)
    /\ log_path' = walk[Len(walk_results) + 1]
    /\ BeginFile(walk[Len(walk_results) + 1])
    /\ UNCHANGED <<bufVars, concVars, fileVars, adapterVars, watchVars, raceVars, callVars, pos, current_offset, batch, k,
                   file_size, err, table, nextStateId, runs, walk>>

\* backfill_directory: the loop is over, Ok(())
BackfillDirectoryDone ==
    /\ pc = "walk"
    /\ Len(walk_results) = Len(walk)
    /\ pc' = "idle"
    /\ result' = "ok"
    /\ lastOp' = "dir_done"
    /\ log_path' = DirPath
    /\ UNCHANGED <<bufVars, concVars, fileVars, adapterVars, watchVars, raceVars, callVars, memVars, table, nextStateId, runs,
                   walk, walk_results>>

\* self.save_state(&mut state).await? with status InProgress
SaveInProgress(ok) ==
    /\ pc = "save_in_progress"
    /\ IF ok
       THEN /\ table' = SaveState(table, state, nextStateId)
            /\ nextStateId' = IF state.id = 0 THEN nextStateId + 1 ELSE nextStateId
            /\ lastOp' = "save_in_progress_ok"
       ELSE /\ lastOp' = "save_in_progress_err"
            /\ UNCHANGED <<table, nextStateId>>
    /\ IF AfterFirstSave(ok) = "idle"
       THEN /\ ResetMem
            /\ FileReturns(IF ok THEN "ok" ELSE "db")
       ELSE /\ pc' = AfterFirstSave(ok)
            /\ state' = IF ok THEN [state EXCEPT !.id = SavedId(state, nextStateId)]
                        ELSE state
            /\ UNCHANGED <<pos, current_offset, batch, k, file_size, err, result,
                           walk_results>>
    /\ UNCHANGED <<bufVars, concVars, fileVars, adapterVars, watchVars, raceVars, callVars, runs, log_path, walk>>

\* backfill_file_line_by_line: File::open, metadata, seek to last_byte_offset
OpenFile(ok) ==
    /\ pc = "open"
    /\ ~ShouldUseFileParsing(agent_name, ExtOf(log_path))
    /\ IF ok
       THEN /\ file_size' = Len(fileBytes)
            /\ pos' = SeekPosition(state.last_byte_offset)
            /\ current_offset' = state.last_byte_offset
            /\ batch' = <<>>
            /\ pc' = "read"
            /\ lastOp' = "open_ok"
            /\ UNCHANGED err
       ELSE /\ err' = "io"
            /\ pc' = "failed"
            /\ lastOp' = "open_err"
            /\ UNCHANGED <<file_size, pos, current_offset, batch>>
    /\ UNCHANGED <<bufVars, concVars, fileVars, adapterVars, watchVars, raceVars, callVars, state, k, table, nextStateId,
                   result, runs, walkVars>>

\* one turn of the while loop: lines.next_line().await?, the byte counter,
\* parse_log_line, and the test whether the batch is due
ReadLine(ok) ==
    /\ pc = "read"
    /\ IF ~ok
       THEN /\ err' = "io"
            /\ pc' = "failed"
            /\ lastOp' = "read_err"
            /\ UNCHANGED <<state, pos, current_offset, batch, k>>
       ELSE LET r == NextLine(fileBytes, pos) IN
            IF r = None
            THEN \* end of file: the partial batch, or state.last_byte_offset = file_size
                 /\ lastOp' = "eof"
                 /\ IF batch # <<>>
                    THEN /\ pc' = "flush_tail"
                         /\ k' = 1
                         /\ UNCHANGED state
                    ELSE /\ pc' = "complete"
                         /\ state' = [state EXCEPT !.last_byte_offset = file_size]
                         /\ UNCHANGED k
                 /\ UNCHANGED <<pos, current_offset, batch, err>>
            ELSE LET line == r[1].line
                     parsed == ParseLogLine(agent_name, line)
                     b == IF parsed = "event"
                          THEN Append(batch, NewEvent(runs, pos, clock))
                          ELSE batch
                 IN /\ pos' = r[1].next
                    /\ current_offset' = AdvanceOffset(current_offset, line)
                    /\ IF parsed = "err"
                       THEN /\ err' = "parse"
                            /\ pc' = "failed"
                            /\ lastOp' = "parse_err"
                            /\ UNCHANGED <<batch, k>>
                       ELSE /\ batch' = b
                            /\ lastOp' = "read_line"
                            /\ IF FlushDue(b, batch_size)
                               THEN pc' = "flush" /\ k' = 1
                               ELSE pc' = "read" /\ UNCHANGED k
                            /\ UNCHANGED err
                    /\ UNCHANGED state
    /\ UNCHANGED <<bufVars, concVars, fileVars, adapterVars, watchVars, raceVars, callVars, file_size, table, nextStateId,
                   result, runs, walkVars>>

\* a plausible slip: the batch is drained from its end
BatchEventReversed(b, i) == b[Len(b) - i + 1]

\* for event in &batch: the event of round i
BatchEvent(b, i) == b[i]

\* for event in &batch: self.buffer.store(event).await?; after the last one
\* the counters of the in-memory state are updated
StoreBatchEvent(ok) ==
    /\ pc \in {"flush", "flush_tail"}
    /\ IF ok
       THEN /\ rows' = StoreRows(rows, BatchEvent(batch, k), max_size, clock, nextRowId)
            /\ nextRowId' = nextRowId + 1
            /\ lastOp' = "store"
            /\ IF k = Len(batch)
               THEN /\ state' = Checkpointed(state, batch, current_offset)
                    /\ pc' = IF pc = "flush" THEN "checkpoint" ELSE "checkpoint_tail"
                    /\ UNCHANGED k
               ELSE /\ k' = k + 1
                    /\ UNCHANGED <<state, pc>>
            /\ UNCHANGED err
       ELSE /\ err' = "store"
            /\ pc' = "failed"
            /\ lastOp' = "store_err"
            /\ UNCHANGED <<rows, nextRowId, state, k>>
    /\ UNCHANGED <<clock, max_size, concVars, fileVars, adapterVars, watchVars, raceVars, callVars, pos, current_offset, batch,
                   file_size, table, nextStateId, result, runs, walkVars>>

\* self.save_state(state).await? after a batch; then batch.clear(), or after
\* the last partial batch state.last_byte_offset = file_size
SaveCheckpoint(ok) ==
    /\ pc \in {"checkpoint", "checkpoint_tail"}
    /\ IF ok
       THEN /\ table' = SaveState(table, state, nextStateId)
            /\ lastOp' = "checkpoint_ok"
            /\ IF pc = "checkpoint"
               THEN /\ batch' = <<>>
                    /\ pc' = "read"
                    /\ UNCHANGED state
               ELSE /\ pc' = "complete"
                    /\ state' = [state EXCEPT !.last_byte_offset = file_size]
                    /\ UNCHANGED batch
            /\ UNCHANGED err
       ELSE /\ err' = "db"
            /\ pc' = "failed"
            /\ lastOp' = "checkpoint_err"
            /\ UNCHANGED <<table, batch, state>>
    /\ UNCHANGED <<bufVars, concVars, fileVars, adapterVars, watchVars, raceVars, callVars, pos, current_offset, k, file_size,
                   nextStateId, result, runs, walkVars>>

\* Ok arm of backfill_file: Completed, completed_at, save_state(...).await?
SaveCompleted(ok) ==
    /\ pc = "complete"
    /\ ResetMem
    /\ IF ok
       THEN /\ table' = SaveState(table, CompletedState(state, clock), nextStateId)
            /\ FileReturns("ok")
            /\ lastOp' = "completed_ok"
       ELSE /\ FileReturns("db")
            /\ lastOp' = "completed_err"
            /\ UNCHANGED table
    /\ UNCHANGED <<bufVars, concVars, fileVars, adapterVars, watchVars, raceVars, callVars, nextStateId, runs, log_path, walk>>

\* Err arm of backfill_file: Failed, error_message, save_state(...).await?,
\* return Err(e)
SaveFailed(ok) ==
    /\ pc = "failed"
    /\ ResetMem
    /\ IF ok
       THEN /\ table' = SaveState(table, FailedState(state, err), nextStateId)
            /\ FileReturns(err)
            /\ lastOp' = "failed_ok"
       ELSE /\ FileReturns("db")
            /\ lastOp' = "failed_err"
            /\ UNCHANGED table
    /\ UNCHANGED <<bufVars, concVars, fileVars, adapterVars, watchVars, raceVars, callVars, nextStateId, runs, log_path, walk>>

\* the process dies: what is in memory is lost, both databases stay
Crash ==
    /\ pc # "idle"
    /\ pc' = "idle"
    /\ ResetMem
    /\ result' = "crashed"
    /\ lastOp' = "crash"
    /\ log_path' = IF is_dir THEN DirPath ELSE LogPath
    /\ walk' = <<>>
    /\ walk_results' = <<>>
    /\ UNCHANGED <<bufVars, concVars, fileVars, adapterVars, watchVars, raceVars, callVars, table, nextStateId, runs>>

(* --------------------- timestamp normalisation ------------------------ *)

\* the strings of a "timestamp" key: RFC 3339 in UTC and with an offset,
\* "2025-10-31 10:00:00", and a text that is no date
TimestampForms == {"rfc3339_utc", "rfc3339_offset", "naive", "text"}

\* the integers of a "timestamp" key are sign * 10^exp
TimestampExponents == {0, 9, 12, 13, 15, 16, 18, 19}

\* serde_json::Value of the "timestamp" key
TimestampValues ==
    {[json |-> "string", form |-> f, sign |-> 1, exp |-> 0] : f \in TimestampForms}
    \cup {[json |-> "integer", form |-> "", sign |-> sg, exp |-> x] :
              sg \in {1, -1}, x \in TimestampExponents}
    \cup {[json |-> j, form |-> "", sign |-> 1, exp |-> 0] :
              j \in {"float", "null", "bool"}}

\* the timestamp of the adapters' tests
TestTimestamp == [json |-> "string", form |-> "rfc3339_utc", sign |-> 1, exp |-> 0]

\* Utc::now()
Now == [json |-> "now", form |-> "", sign |-> 1, exp |-> 0]

\* parse_timestamp returned the instant that the value denotes, or now
Parsed(instant) == [panicked |-> FALSE, time |-> instant]

\* LocalResult::None.unwrap()
TimestampPanic == [panicked |-> TRUE, time |-> Now]

\* Number::as_i64: the number is an integer that fits an i64
AsI64(ts) == IF ts.json = "integer" /\ ts.exp <= I64Exponent THEN Some(ts) ELSE None

\* DateTime::parse_from_rfc3339(s) is Ok
IsRfc3339(ts) == ts.form \in {"rfc3339_utc", "rfc3339_offset"}

\* Utc.timestamp_opt(secs, 0) and, for Copilot, Utc.timestamp_millis_opt(ms)
\* give a DateTime
InChronoRange(agent, ts) ==
    ts.exp <= (IF agent = "github-copilot" THEN ChronoMillisExponent
               ELSE ChronoSecondsExponent)

\* parse_timestamp of ClaudeAdapter, CursorAdapter and CopilotAdapter
ParseTimestamp(agent, ts) ==
    IF ts.json = "string"
    THEN (IF IsRfc3339(ts) THEN Parsed(ts)
          ELSE IF agent = "cursor" /\ ts.form = "naive" THEN Parsed(ts)
          ELSE Parsed(Now))
    ELSE IF ts.json \in {"integer", "float"}
    THEN (IF AsI64(ts) = None THEN Parsed(Now)
          ELSE IF InChronoRange(agent, ts) THEN Parsed(ts)
          ELSE TimestampPanic)
    ELSE Parsed(Now)

\* what parse_log_line did: it returned Ok with an event or with None, or
\* it panicked
Returned(event) == [panicked |-> FALSE, event |-> event]

Panicked == [panicked |-> TRUE, event |-> None]

(* ------------------------ the Cursor adapter -------------------------- *)

\* the values of the "type" key: the strings detect_event_type knows, two
\* EVENT_TYPE_* names it does not know, and one that is no event type
TypeStrings ==
    {"llm_request", "prompt", "completion_request", "llm_response", "completion",
     "completion_response", "tool_use", "tool_call", "file_read", "file_write",
     "file_modify", "session_start", "command_execution", "other"}

\* the values of the "message" key
Messages == {"", "Prompt sent", "Tool RESPONSE", "hello"}

\* two more, for the file heuristics
FileMessages == {"Reading file", "modify file"}

\* message.to_lowercase().contains(word)
MessageContains(msg, word) ==
    \/ msg = "Prompt sent" /\ word = "prompt"
    \/ msg = "Tool RESPONSE" /\ word \in {"tool", "response"}
    \/ msg = "Reading file" /\ word = "read"
    \/ msg = "modify file" /\ word = "modify"

\* CursorLogEntry as serde fills it: a missing key is None, a missing message
\* is the empty string
CursorEntries ==
    {[timestamp |-> TestTimestamp, level |-> None, message |-> m,
      event_type |-> t, session_id |-> sid, conversation_id |-> cid,
      model |-> None, prompt |-> p, response |-> r, tokens |-> None,
      prompt_tokens |-> pt, completion_tokens |-> None, tool |-> tl,
      tool_args |-> None, file |-> fo[1], operation |-> fo[2], metadata |-> None] :
        m \in Messages,
        t \in {None} \cup {Some(x) : x \in TypeStrings},
        sid \in {None, Some("sess_123")},
        cid \in {None, Some("conv_9")},
        p \in {None, Some("Test prompt")},
        r \in {None, Some("Test response")},
        pt \in {None, Some(2)},
        tl \in {None, Some("grep")},
        fo \in {<<None, None>>, <<Some("a.rs"), Some("read")>>,
                 <<Some("a.rs"), Some("write")>>}}

\* the lines that are not a Cursor log entry: text over the alphabet of the
\* files, CR being its whitespace and k its keyword
TextLines == {t \in SeqsUpTo({"k", "x", "CR"}, MaxTextLen) : ~IsEntry(Trim(t))}

\* the lines given to parse_log_line: a line that deserializes as a
\* CursorLogEntry, given by the entry, or a text
CursorLines ==
    {[kind |-> "entry", entry |-> e, text |-> <<>>] : e \in CursorEntries}
    \cup {[kind |-> "text", entry |-> None, text |-> t] : t \in TextLines}

NoLine == [kind |-> "text", entry |-> None, text |-> <<>>]

NotParsed == [done |-> FALSE, panicked |-> FALSE, event |-> None]

\* detect_event_type: the explicit type, then the heuristics
DetectEventType(entry) ==
    LET t == IF entry.event_type = None THEN "" ELSE entry.event_type[1]
        op == IF entry.operation = None THEN "" ELSE entry.operation[1]
    IN
    IF t \in {"llm_request", "prompt", "completion_request"} THEN Some("llm_request")
    ELSE IF t \in {"llm_response", "completion", "completion_response"}
    THEN Some("llm_response")
    ELSE IF t \in {"tool_use", "tool_call"} THEN Some("tool_use")
    ELSE IF t = "file_read" THEN Some("file_read")
    ELSE IF t \in {"file_write", "file_modify"} THEN Some("file_write")
    ELSE IF \/ entry.prompt # None
            \/ MessageContains(entry.message, "prompt")
            \/ MessageContains(entry.message, "request")
    THEN Some("llm_request")
    ELSE IF \/ entry.response # None
            \/ MessageContains(entry.message, "response")
            \/ MessageContains(entry.message, "completion")
    THEN Some("llm_response")
    ELSE IF entry.tool # None \/ MessageContains(entry.message, "tool")
    THEN Some("tool_use")
    ELSE IF entry.file # None /\ entry.operation # None
            /\ (op = "read" \/ MessageContains(entry.message, "read"))
    THEN Some("file_read")
    ELSE IF entry.file # None /\ entry.operation # None
            /\ (op = "write" \/ MessageContains(entry.message, "write"))
    THEN Some("file_write")
    ELSE None

\* a map from a set of <<key, value>> pairs with distinct keys
MapOf(pairs) ==
    [key \in {q[1] : q \in pairs} |-> (CHOOSE q \in pairs : q[1] = key)[2]]

\* extract_data: the message, and the fields of the detected event type
ExtractData(entry, event_type) ==
    MapOf({<<"message", entry.message>>}
          \cup (IF event_type = "llm_request" /\ entry.prompt # None
                 THEN {<<"prompt", entry.prompt[1]>>, <<"promptLength", "len">>}
                 ELSE {})
          \cup (IF event_type = "llm_response" /\ entry.response # None
                 THEN {<<"response", entry.response[1]>>, <<"responseLength", "len">>}
                 ELSE {})
          \cup (IF event_type = "tool_use" /\ entry.tool # None
                 THEN {<<"toolName", entry.tool[1]>>} ELSE {})
          \cup (IF event_type = "tool_use" /\ entry.tool_args # None
                 THEN {<<"toolArgs", entry.tool_args[1]>>} ELSE {})
          \cup (IF event_type \in {"file_read", "file_write"} /\ entry.file # None
                 THEN {<<"filePath", entry.file[1]>>} ELSE {})
          \cup (IF event_type \in {"file_read", "file_write"} /\ entry.operation # None
                 THEN {<<"operation", entry.operation[1]>>} ELSE {}))

\* extract_context
ExtractContext(entry) ==
    MapOf((IF entry.level # None THEN {<<"logLevel", entry.level[1]>>} ELSE {})
          \cup (IF entry.model # None THEN {<<"model", entry.model[1]>>} ELSE {}))

\* extract_metrics
ExtractMetrics(entry) ==
    IF entry.tokens = None /\ entry.prompt_tokens = None
       /\ entry.completion_tokens = None
    THEN None
    ELSE Some([token_count |-> entry.tokens, duration_ms |-> None,
               prompt_tokens |-> entry.prompt_tokens,
               response_tokens |-> entry.completion_tokens, cost |-> None])

\* a plausible slip: the conversation id is preferred
SessionIdOfConversationFirst(entry) ==
    IF entry.conversation_id # None THEN entry.conversation_id[1]
    ELSE IF entry.session_id # None THEN entry.session_id[1]
    ELSE "uuid"

\* entry.session_id.or(entry.conversation_id).unwrap_or_else(new uuid)
SessionIdOf(entry) ==
    IF entry.session_id # None THEN entry.session_id[1]
    ELSE IF entry.conversation_id # None THEN entry.conversation_id[1]
    ELSE "uuid"

\* the AgentEvent the Cursor adapter builds
CursorEvent(time, event_type, session_id, context, data, metrics) ==
    [id |-> "uuid", timestamp |-> time, event_type |-> event_type,
     agent_id |-> "cursor", agent_version |-> "", session_id |-> session_id,
     project_id |-> 0, machine_id |-> None, workspace_id |-> None,
     legacy_project_id |-> Some("project"), context |-> context, data |-> data,
     metrics |-> metrics]

\* parse_plain_text_line
ParsePlainTextLine(text) ==
    IF ~HasKeyword(text) THEN None
    ELSE Some(CursorEvent(Now, "user_interaction", "uuid", EmptyMap,
                          [rawLog |-> text], None))

\* CursorAdapter::parse_log_line
CursorParseLogLine(l) ==
    IF l.kind = "text"
    THEN Returned(IF Trim(l.text) = <<>> THEN None
                  ELSE ParsePlainTextLine(Trim(l.text)))
    ELSE LET t == DetectEventType(l.entry)
             ts == ParseTimestamp("cursor", l.entry.timestamp)
         IN
         IF t = None THEN Returned(None)
         ELSE IF ts.panicked THEN Panicked
         ELSE Returned(Some(CursorEvent(ts.time, t[1], SessionIdOf(l.entry),
                                        ExtractContext(l.entry),
                                        ExtractData(l.entry, t[1]),
                                        ExtractMetrics(l.entry))))

\* adapter.parse_log_line(&line)
CursorParse ==
    /\ ~line_out.done
    /\ line_out' = [done |-> TRUE,
                    panicked |-> CursorParseLogLine(line_in).panicked,
                    event |-> CursorParseLogLine(line_in).event]
    /\ lastOp' = "parse_log_line"
    /\ UNCHANGED <<bufVars, concVars, callVars, raceVars, line_in, watchVars,
                   fileVars, memVars, runVars>>

(* ------------------------ the Claude adapter -------------------------- *)

\* the explicit types of the entries given to the Claude adapter: None, the
\* strings its detect_event_type knows, two that only the Cursor adapter
\* knows and one that is no event type
AdapterTypeValues ==
    {None} \cup {Some(x) : x \in {"llm_request", "prompt", "llm_response", "completion",
                                  "tool_use", "tool_call", "file_read", "file_write",
                                  "file_modify", "completion_request",
                                  "completion_response", "other"}}

\* the file and the operation on it: none, read, write, another operation,
\* a file without an operation
FileOperations ==
    {<<None, None>>, <<Some("a.rs"), Some("read")>>, <<Some("a.rs"), Some("write")>>,
     <<Some("a.rs"), Some("open")>>, <<Some("a.rs"), None>>}

\* ClaudeLogEntry as serde fills it: timestamp and message are required, a
\* missing optional key is None
ClaudeEntry(ts, m, t, p, r, tl, fo) ==
    [timestamp |-> ts, level |-> None, message |-> m, event_type |-> t,
     conversation_id |-> None, model |-> None, prompt |-> p, response |-> r,
     tokens_used |-> None, prompt_tokens |-> None, response_tokens |-> None,
     tool_name |-> tl, tool_input |-> None, tool_output |-> None,
     file_path |-> fo[1], action |-> fo[2], metadata |-> None]

\* every choice of the fields that detect_event_type reads, with the
\* timestamp of the tests; and every timestamp value, in an entry with and
\* without an explicit type and with and without a keyword in its message
ClaudeEntries ==
    {ClaudeEntry(TestTimestamp, m, t, p, r, tl, fo) :
        m \in Messages \cup FileMessages,
        t \in AdapterTypeValues,
        p \in {None, Some("Test prompt")},
        r \in {None, Some("Test response")},
        tl \in {None, Some("grep")},
        fo \in FileOperations}
    \cup {ClaudeEntry(ts, m, t, None, None, None, <<None, None>>) :
        ts \in TimestampValues,
        m \in {"hello", "Prompt sent"},
        t \in {None, Some("tool_use")}}

\* ClaudeAdapter::detect_event_type, the match on the explicit type
ClaudeExplicitType(event_type) ==
    LET t == IF event_type = None THEN "" ELSE event_type[1] IN
    IF t \in {"llm_request", "prompt"} THEN Some("llm_request")
    ELSE IF t \in {"llm_response", "completion"} THEN Some("llm_response")
    ELSE IF t \in {"tool_use", "tool_call"} THEN Some("tool_use")
    ELSE IF t = "file_read" THEN Some("file_read")
    ELSE IF t \in {"file_write", "file_modify"} THEN Some("file_write")
    ELSE None

\* ClaudeAdapter::detect_event_type, what follows the match
ClaudeHeuristics(entry) ==
    LET action == IF entry.action = None THEN "" ELSE entry.action[1] IN
    IF \/ entry.prompt # None
       \/ MessageContains(entry.message, "prompt")
       \/ MessageContains(entry.message, "request")
    THEN Some("llm_request")
    ELSE IF \/ entry.response # None
            \/ MessageContains(entry.message, "response")
            \/ MessageContains(entry.message, "completion")
    THEN Some("llm_response")
    ELSE IF entry.tool_name # None \/ MessageContains(entry.message, "tool")
    THEN Some("tool_use")
    ELSE IF entry.file_path # None /\ entry.action # None
            /\ (action = "read" \/ MessageContains(entry.message, "read"))
    THEN Some("file_read")
    ELSE IF entry.file_path # None /\ entry.action # None
            /\ (\/ action = "write"
                \/ MessageContains(entry.message, "write")
                \/ MessageContains(entry.message, "modify"))
    THEN Some("file_write")
    ELSE None

\* a plausible slip: the heuristics are tried before the explicit type
ClaudeHeuristicsFirst(entry) ==
    IF ClaudeHeuristics(entry) # None THEN ClaudeHeuristics(entry)
    ELSE ClaudeExplicitType(entry.event_type)

\* ClaudeAdapter::detect_event_type
ClaudeDetectEventType(entry) ==
    IF ClaudeExplicitType(entry.event_type) # None
    THEN ClaudeExplicitType(entry.event_type)
    ELSE ClaudeHeuristics(entry)

\* ClaudeAdapter::extract_context
ClaudeExtractContext(entry) ==
    MapOf((IF entry.level # None THEN {<<"logLevel", entry.level[1]>>} ELSE {})
          \cup (IF entry.model # None THEN {<<"model", entry.model[1]>>} ELSE {}))

\* ClaudeAdapter::extract_data
ClaudeExtractData(entry, event_type) ==
    MapOf({<<"message", entry.message>>}
          \cup (IF event_type = "llm_request" /\ entry.prompt # None
                 THEN {<<"prompt", entry.prompt[1]>>, <<"promptLength", "len">>}
                 ELSE {})
          \cup (IF event_type = "llm_response" /\ entry.response # None
                 THEN {<<"response", entry.response[1]>>, <<"responseLength", "len">>}
                 ELSE {})
          \cup (IF event_type = "tool_use" /\ entry.tool_name # None
                 THEN {<<"toolName", entry.tool_name[1]>>} ELSE {})
          \cup (IF event_type = "tool_use" /\ entry.tool_input # None
                 THEN {<<"toolInput", entry.tool_input[1]>>} ELSE {})
          \cup (IF event_type = "tool_use" /\ entry.tool_output # None
                 THEN {<<"toolOutput", entry.tool_output[1]>>} ELSE {})
          \cup (IF event_type \in {"file_read", "file_write"} /\ entry.file_path # None
                 THEN {<<"filePath", entry.file_path[1]>>} ELSE {})
          \cup (IF event_type \in {"file_read", "file_write"} /\ entry.action # None
                 THEN {<<"action", entry.action[1]>>} ELSE {})
          \cup (IF entry.conversation_id # None
                 THEN {<<"conversationId", entry.conversation_id[1]>>} ELSE {}))

\* ClaudeAdapter::extract_metrics
ClaudeExtractMetrics(entry) ==
    IF entry.tokens_used = None /\ entry.prompt_tokens = None
       /\ entry.response_tokens = None
    THEN None
    ELSE Some([token_count |-> entry.tokens_used, duration_ms |-> None,
               prompt_tokens |-> entry.prompt_tokens,
               response_tokens |-> entry.response_tokens, cost |-> None])

\* the AgentEvent the Claude adapter builds
ClaudeEvent(time, event_type, entry) ==
    [id |-> "uuid", timestamp |-> time, event_type |-> event_type,
     agent_id |-> "claude", agent_version |-> "",
     session_id |-> IF entry.conversation_id = None THEN ""
                    ELSE entry.conversation_id[1],
     project_id |-> 0, machine_id |-> None, workspace_id |-> None,
     legacy_project_id |-> Some("project"), context |-> ClaudeExtractContext(entry),
     data |-> ClaudeExtractData(entry, event_type),
     metrics |-> ClaudeExtractMetrics(entry)]

\* ClaudeAdapter::parse_log_line on a line that deserializes as a
\* ClaudeLogEntry
ClaudeParseLogLine(l) ==
    LET t == ClaudeDetectEventType(l.entry)
        ts == ParseTimestamp("claude", l.entry.timestamp)
    IN
    IF t = None THEN Returned(None)
    ELSE IF ts.panicked THEN Panicked
    ELSE Returned(Some(ClaudeEvent(ts.time, t[1], l.entry)))

\* CursorLogEntry as serde fills it
CursorEntry(ts, m, t, p, r, tl, fo) ==
    [timestamp |-> ts, level |-> None, message |-> m,
     event_type |-> t, session_id |-> None, conversation_id |-> None,
     model |-> None, prompt |-> p, response |-> r, tokens |-> None,
     prompt_tokens |-> None, completion_tokens |-> None, tool |-> tl,
     tool_args |-> None, file |-> fo[1], operation |-> fo[2], metadata |-> None]

\* the same choices for the Cursor adapter
CursorTimestampEntries ==
    {CursorEntry(TestTimestamp, m, t, p, r, tl, fo) :
        m \in Messages \cup FileMessages,
        t \in AdapterTypeValues,
        p \in {None, Some("Test prompt")},
        r \in {None, Some("Test response")},
        tl \in {None, Some("grep")},
        fo \in FileOperations}
    \cup {CursorEntry(ts, m, t, None, None, None, <<None, None>>) :
        ts \in TimestampValues,
        m \in {"hello", "Prompt sent"},
        t \in {None, Some("tool_use")}}

(* ------------------------ the Copilot adapter ------------------------- *)

\* the timestamp of the adapter's test, 1700000000000 ms: an integer that is
\* a number of milliseconds of a DateTime
TestMillis == [json |-> "integer", form |-> "", sign |-> 1, exp |-> 12]

\* the kinds of CopilotResponseItem: text (kind absent, a value that is not
\* empty), a tool invocation and a text edit
ResponseKinds == {"text", "toolInvocationSerialized", "textEditGroup"}

\* variable_data.variables: none, a variable whose value holds a path and
\* one whose value holds none
VariableLists == {<<>>, <<"file">>, <<"nofile">>}

\* CopilotRequest as serde fills it
CopilotRequests(timestamps, responses) ==
    {[timestamp |-> ts, is_canceled |-> c, variables |-> vs, response |-> rs] :
        ts \in timestamps, c \in BOOLEAN, vs \in VariableLists, rs \in responses}

\* the chat sessions of one request with every timestamp value
CopilotTimestampSessions ==
    {<<r>> : r \in CopilotRequests(TimestampValues, {<<>>, <<"text">>})}

\* those, and the chat sessions with the timestamp of the test
CopilotSessions ==
    SeqsUpTo(CopilotRequests({TestMillis}, SeqsUpTo(ResponseKinds, MaxResponseItems)),
             MaxRequests)
    \cup CopilotTimestampSessions

CopilotLine(session) ==
    [agent |-> "github-copilot", kind |-> "session", session |-> session]

CopilotLines == {CopilotLine(ss) : ss \in CopilotSessions}

\* timestamp + chrono::Duration::milliseconds(ms)
PlusMillis(time, ms) == [base |-> time, plus |-> ms]

\* an event of request number i of the session
CopilotEvent(i, event_type, time) ==
    [request |-> i, event_type |-> event_type, timestamp |-> time]

\* step 2 of a request: a file_read event for each variable with a path
RECURSIVE FileReferenceEvents(_, _, _)
FileReferenceEvents(i, time, vs) ==
    IF vs = <<>> THEN <<>>
    ELSE (IF Head(vs) = "file"
          THEN <<CopilotEvent(i, "file_read", PlusMillis(time, 0))>> ELSE <<>>)
         \o FileReferenceEvents(i, time, Tail(vs))

\* step 3 of a request: the events of the response items, in list order
RECURSIVE ResponseItemEvents(_, _, _)
ResponseItemEvents(i, time, rs) ==
    IF rs = <<>> THEN <<>>
    ELSE (IF Head(rs) = "toolInvocationSerialized"
          THEN <<CopilotEvent(i, "tool_use", PlusMillis(time, ToolDeltaMs))>>
          ELSE IF Head(rs) = "textEditGroup"
          THEN <<CopilotEvent(i, "file_modify", PlusMillis(time, EditDeltaMs))>>
          ELSE <<>>)
         \o ResponseItemEvents(i, time, Tail(rs))

\* the body of the loop over session.requests for request number i
RequestEvents(i, request) ==
    IF request.is_canceled THEN <<>>
    ELSE LET time == ParseTimestamp("github-copilot", request.timestamp).time IN
         <<CopilotEvent(i, "llm_request", PlusMillis(time, 0))>>
         \o FileReferenceEvents(i, time, request.variables)
         \o ResponseItemEvents(i, time, request.response)
         \o <<CopilotEvent(i, "llm_response", PlusMillis(time, ResponseDeltaMs))>>

RECURSIVE SessionEvents(_, _)
SessionEvents(session, i) ==
    IF i > Len(session) THEN <<>>
    ELSE RequestEvents(i, session[i]) \o SessionEvents(session, i + 1)

\* parse_timestamp panics on the timestamp of a request that is not cancelled
SessionPanics(session) ==
    \E i \in 1..Len(session) :
        /\ ~session[i].is_canceled
        /\ ParseTimestamp("github-copilot", session[i].timestamp).panicked

\* CopilotAdapter::parse_log_file on a file that deserializes as a
\* CopilotChatSession
CopilotParseLogFile(session) ==
    IF SessionPanics(session) THEN [panicked |-> TRUE, events |-> <<>>]
    ELSE [panicked |-> FALSE, events |-> SessionEvents(session, 1)]

\* adapter.parse_log_file(path)
CopilotParse ==
    /\ ~line_out.done
    /\ line_in.kind = "session"
    /\ LET r == CopilotParseLogFile(line_in.session) IN
       line_out' = [done |-> TRUE, panicked |-> r.panicked, event |-> None,
                    events |-> r.events]
    /\ lastOp' = "parse_log_file"
    /\ UNCHANGED <<bufVars, concVars, callVars, raceVars, line_in, watchVars,
                   fileVars, memVars, runVars>>

(* ----------------------- the adapters together ----------------------- *)

\* the lines given to parse_log_line of the two line adapters, and the
\* session files of one request given to parse_log_file of the Copilot
\* adapter
AdapterLines ==
    {CopilotLine(ss) : ss \in CopilotTimestampSessions} \cup
    {[agent |-> "claude", kind |-> "entry", entry |-> e, text |-> <<>>] :
        e \in ClaudeEntries}
    \cup {[agent |-> "cursor", kind |-> "entry", entry |-> e, text |-> <<>>] :
        e \in CursorTimestampEntries}

\* adapter.parse_log_line(&line) of the adapter the line is given to;
\* detected is the event_type local of parse_log_line
AdapterParse ==
    /\ ~line_out.done
    /\ line_in.kind = "entry"
    /\ LET r == IF line_in.agent = "claude" THEN ClaudeParseLogLine(line_in)
                ELSE CursorParseLogLine(line_in)
           t == IF line_in.agent = "claude" THEN ClaudeDetectEventType(line_in.entry)
                ELSE DetectEventType(line_in.entry)
       IN line_out' = [done |-> TRUE, panicked |-> r.panicked, event |-> r.event,
                       detected |-> t]
    /\ lastOp' = "parse_log_line"
    /\ UNCHANGED <<bufVars, concVars, callVars, raceVars, line_in, watchVars,
                   fileVars, memVars, runVars>>

(* ----------------------------- the watcher ---------------------------- *)

\* watcher.tasks are the handle_event tasks that the notify callback has
\* spawned and that have not ended: at is the instant of the notification,
\* left the events still to send (NotParsedYet before the file is parsed);
\* watcher.queue is the mpsc channel of event_queue_size places;
\* watcher.parsed lists the notifications for which the file was parsed.
\* Config.debounce_ms is not kept by Watcher::new.
NotParsedYet == 0 - 1

NoWatcher ==
    [tasks |-> {}, next_task |-> 1, queue |-> <<>>, parsed |-> <<>>,
     file_events |-> 0, event_queue_size |-> 0]

\* Watcher::new, and watch(path, adapter) on a log file that holds events
NewWatcher(file_events, event_queue_size) ==
    [NoWatcher EXCEPT !.file_events = file_events,
                      !.event_queue_size = event_queue_size]

\* the closure given to notify::recommended_watcher: a Modify or Create
\* event of the watched file spawns handle_event
WatchNotify ==
    /\ watcher.next_task <= MaxNotifications
    /\ watcher' = [watcher EXCEPT
           !.tasks = @ \cup {[id |-> watcher.next_task, at |-> clock,
                              left |-> NotParsedYet]},
           !.next_task = @ + 1]
    /\ lastOp' = "notify"
    /\ UNCHANGED <<bufVars, concVars, callVars, raceVars, adapterVars, fileVars,
                   memVars, runVars>>

\* handle_event up to the loop over the events: the path is a log file and
\* is in the watching map, the whole file is parsed
WatchParse(task) ==
    /\ task \in watcher.tasks
    /\ task.left = NotParsedYet
    /\ watcher' = [watcher EXCEPT
           !.tasks = (@ \ {task}) \cup {[task EXCEPT !.left = watcher.file_events]},
           !.parsed = Append(@, task.at)]
    /\ lastOp' = "watch_parse"
    /\ UNCHANGED <<bufVars, concVars, callVars, raceVars, adapterVars, fileVars,
                   memVars, runVars>>

\* tx.send(event).await: it waits while the channel is full; after the last
\* event handle_event returns
WatchSend(task) ==
    /\ task \in watcher.tasks
    /\ task.left > 0
    /\ Len(watcher.queue) < watcher.event_queue_size
    /\ watcher' = [watcher EXCEPT
           !.tasks = (@ \ {task}) \cup
                     (IF task.left = 1 THEN {} ELSE {[task EXCEPT !.left = @ - 1]}),
           !.queue = Append(@, [task |-> task.id, at |-> task.at])]
    /\ lastOp' = "watch_send"
    /\ UNCHANGED <<bufVars, concVars, callVars, raceVars, adapterVars, fileVars,
                   memVars, runVars>>

\* the task main spawns: rx.recv().await, then buffer.store(&event)
WatchRecv ==
    /\ watcher.queue # <<>>
    /\ nextRowId <= MaxStores
    /\ watcher' = [watcher EXCEPT !.queue = Tail(@)]
    /\ rows' = StoreRows(rows, ExternalEvent(1), max_size, clock, nextRowId)
    /\ nextRowId' = nextRowId + 1
    /\ lastOp' = "watch_recv"
    /\ UNCHANGED <<clock, max_size, concVars, callVars, raceVars, adapterVars, fileVars,
                   memVars, runVars>>

(* ------------- two invocations of backfill on the same file ----------- *)

\* the invocations, each a task with its own BackfillState in memory; both
\* are given agent_name and LogPath
Invocations == {"first", "second"}

InvIdle == [pc |-> "idle", state |-> IdleState, err |-> ""]

\* a plausible slip: the table takes any row
InsertAlwaysAllowed(tbl, s) == TRUE

\* UNIQUE(agent_name, log_file_path): the INSERT of save_state is refused when
\* a row of the pair exists
InsertAllowed(tbl, s) ==
    ~\E r \in tbl : r.agent_name = s.agent_name /\ r.log_file_path = s.log_file_path

RaceFrame ==
    UNCHANGED <<bufVars, concVars, callVars, fileVars, adapterVars, watchVars, memVars, pc, result, walkVars>>

\* backfill_file: load_state, the early return on Completed, status := InProgress
RaceLoad(i) ==
    /\ inv[i].pc \in {"idle", "returned"}
    /\ runs < MaxRuns
    /\ runs' = runs + 1
    /\ LET s == LoadState(table, agent_name, LogPath, clock) IN
       inv' = [inv EXCEPT ![i] =
                 IF IsAlreadyProcessed(s.status)
                 THEN [pc |-> "returned", state |-> IdleState, err |-> ""]
                 ELSE [pc |-> "save_in_progress",
                       state |-> [s EXCEPT !.status = "InProgress"], err |-> ""]]
    /\ lastOp' = "race_load"
    /\ UNCHANGED <<table, nextStateId>>
    /\ RaceFrame

\* backfill_file: the first save_state; an INSERT the table refuses is an
\* error that backfill_file returns
RaceSaveInProgress(i) ==
    /\ inv[i].pc = "save_in_progress"
    /\ IF inv[i].state.id = 0 /\ ~InsertAllowed(table, inv[i].state)
       THEN /\ inv' = [inv EXCEPT ![i] =
                         [pc |-> "returned", state |-> IdleState, err |-> "unique"]]
            /\ lastOp' = "race_insert_refused"
            /\ UNCHANGED <<table, nextStateId>>
       ELSE /\ table' = SaveState(table, inv[i].state, nextStateId)
            /\ nextStateId' = IF inv[i].state.id = 0 THEN nextStateId + 1 ELSE nextStateId
            /\ inv' = [inv EXCEPT ![i].pc = "run",
                                  ![i].state.id = SavedId(inv[i].state, nextStateId)]
            /\ lastOp' = "race_saved"
    /\ UNCHANGED runs
    /\ RaceFrame

\* backfill_file_line_by_line: a batch is stored and its checkpoint written
RaceCheckpoint(i) ==
    /\ inv[i].pc = "run"
    /\ inv[i].state.last_byte_offset < MaxLines
    /\ LET s == [inv[i].state EXCEPT !.last_byte_offset = @ + 1,
                                     !.total_events_processed = @ + 1]
       IN /\ table' = SaveState(table, s, nextStateId)
          /\ inv' = [inv EXCEPT ![i].state = s]
    /\ lastOp' = "race_checkpoint"
    /\ UNCHANGED <<nextStateId, runs>>
    /\ RaceFrame

\* backfill_file: the Ok arm or the Err arm, and its save_state
RaceFinish(i, ok) ==
    /\ inv[i].pc = "run"
    /\ LET s == IF ok THEN CompletedState(inv[i].state, clock)
                 ELSE FailedState(inv[i].state, "parse")
       IN table' = SaveState(table, s, nextStateId)
    /\ inv' = [inv EXCEPT ![i] =
                 [pc |-> "returned", state |-> IdleState,
                  err |-> IF ok THEN "" ELSE "parse"]]
    /\ lastOp' = "race_finished"
    /\ UNCHANGED <<nextStateId, runs>>
    /\ RaceFrame

(* --------------------------- specifications --------------------------- *)
InitBuffer(max) ==
    /\ rows = <<>>
    /\ nextRowId = 1
    /\ clock = 0
    /\ max_size = max
    /\ lastOp = "new"

InitProducers ==
    /\ spc = [p \in Producers |-> "idle"]
    /\ scount = [p \in Producers |-> 0]
    /\ sevent = [p \in Producers |-> CHOOSE e \in ExternalEvents : TRUE]
    /\ screated = [p \in Producers |-> 0]
    /\ call = NoRead
    /\ ret = NoResult
    /\ http_queue = HttpIdle
    /\ inv = [i \in Invocations |-> InvIdle]
    /\ line_in = NoLine
    /\ line_out = NotParsed
    /\ watcher = NoWatcher

InitBackfill(bytes, size, agent, tbl) ==
    /\ fileBytes = bytes
    /\ batch_size = size
    /\ agent_name = agent
    /\ table = tbl
    /\ nextStateId = Cardinality(tbl) + 1
    /\ pc = "idle"
    /\ state = IdleState
    /\ pos = 0
    /\ current_offset = 0
    /\ batch = <<>>
    /\ k = 0
    /\ file_size = 0
    /\ err = ""
    /\ result = "none"
    /\ runs = 0

\* options.log_path: a file (d false) or a directory that holds files
InitWalk(d, files) ==
    /\ is_dir = d
    /\ dir_files = files
    /\ log_path = IF d THEN DirPath ELSE LogPath
    /\ walk = <<>>
    /\ walk_results = <<>>

\* a row in status paused, as a consumer that suspends a file would leave it
PausedRow(agent) ==
    RowOf([FreshState(agent, LogPath, 0) EXCEPT !.status = "Paused"], 1, 0)

Init ==
    /\ InitBuffer(DefaultMaxSize)
    /\ InitProducers
    /\ \E bytes \in Files, size \in 1..MaxBatch, agent \in Agents :
           InitBackfill(bytes, size, agent, {})
    /\ InitWalk(FALSE, <<>>)

InitPaused ==
    /\ InitBuffer(DefaultMaxSize)
    /\ InitProducers
    /\ \E bytes \in Files, size \in 1..MaxBatch, agent \in Agents :
           InitBackfill(bytes, size, agent, {PausedRow(agent)})
    /\ InitWalk(FALSE, <<>>)

InitBuf ==
    /\ \E max \in 1..MaxCap : InitBuffer(max)
    /\ InitProducers
    /\ InitBackfill(<<>>, 1, "claude", {})
    /\ InitWalk(FALSE, <<>>)

\* files whose lines all end in CR LF
InitCrlf ==
    /\ InitBuffer(DefaultMaxSize)
    /\ InitProducers
    /\ \E bytes \in CrlfFiles, size \in 1..MaxBatch, agent \in Agents :
           InitBackfill(bytes, size, agent, {})
    /\ InitWalk(FALSE, <<>>)

\* a file or a directory, and an agent name that may not be registered
InitDir ==
    /\ InitBuffer(DefaultMaxSize)
    /\ InitProducers
    /\ \E bytes \in DirFileContents, agent \in Agents \cup {"unknown"} :
           InitBackfill(bytes, 1, agent, {})
    /\ \/ InitWalk(FALSE, <<>>)
       \/ \E files \in DirListings : InitWalk(TRUE, files)

Next ==
    \/ BackfillFileBegin
    \/ \E ok \in BOOLEAN : SaveInProgress(ok)
    \/ \E ok \in BOOLEAN : OpenFile(ok)
    \/ \E ok \in BOOLEAN : ReadLine(ok)
    \/ \E ok \in BOOLEAN : StoreBatchEvent(ok)
    \/ \E ok \in BOOLEAN : SaveCheckpoint(ok)
    \/ \E ok \in BOOLEAN : SaveCompleted(ok)
    \/ \E ok \in BOOLEAN : SaveFailed(ok)
    \/ Crash

\* the same steps when no read, store or state write fails: only crashes
\* interrupt a run
NextCrash ==
    \/ BackfillFileBegin
    \/ SaveInProgress(TRUE)
    \/ OpenFile(TRUE)
    \/ ReadLine(TRUE)
    \/ StoreBatchEvent(TRUE)
    \/ SaveCheckpoint(TRUE)
    \/ SaveCompleted(TRUE)
    \/ SaveFailed(TRUE)
    \/ Crash

\* the steps of an invocation when the process does not die and no write to
\* the state database or to the buffer fails; opening and reading the log
\* file may fail
StepNoWriteFailure ==
    \/ SaveInProgress(TRUE)
    \/ \E ok \in BOOLEAN : OpenFile(ok)
    \/ \E ok \in BOOLEAN : ReadLine(ok)
    \/ StoreBatchEvent(TRUE)
    \/ SaveCheckpoint(TRUE)
    \/ SaveCompleted(TRUE)
    \/ SaveFailed(TRUE)

NextNoWriteFailure ==
    \/ BackfillFileBegin
    \/ StepNoWriteFailure

\* backfill as the command line calls it: any agent name, file or directory
NextDir ==
    \/ Next
    \/ BackfillAdapterNotFound
    \/ BackfillDirectoryBegin
    \/ DirFileBegin
    \/ BackfillDirectoryDone

NextBuf ==
    \/ \E e \in ExternalEvents : BufStore(e)
    \/ \E ids \in SUBSET ExternalIds : BufDelete(ids)
    \/ BufClear
    \/ Tick

\* the events of the round trip: every choice of which optional fields are
\* present
RoundTripEvents ==
    {[ExternalEvent(1) EXCEPT !.machine_id = mid, !.workspace_id = wid,
                              !.legacy_project_id = lid, !.context = ctx,
                              !.metrics = met] :
        mid \in {None, Some(1)}, wid \in {None, Some(1)}, lid \in {None, Some("p")},
        ctx \in {EmptyMap, [file |-> "a"]},
        met \in {None} \cup {Some(m) : m \in [MetricsFields -> {None, Some(1)}]}}

\* a line for the Cursor adapter
InitCursor ==
    /\ InitBuffer(DefaultMaxSize)
    /\ spc = [p \in Producers |-> "idle"]
    /\ scount = [p \in Producers |-> 0]
    /\ sevent = [p \in Producers |-> CHOOSE e \in ExternalEvents : TRUE]
    /\ screated = [p \in Producers |-> 0]
    /\ call = NoRead
    /\ ret = NoResult
    /\ http_queue = HttpIdle
    /\ inv = [i \in Invocations |-> InvIdle]
    /\ line_in \in CursorLines
    /\ line_out = NotParsed
    /\ watcher = NoWatcher
    /\ InitBackfill(<<>>, 1, "cursor", {})
    /\ InitWalk(FALSE, <<>>)

\* a watcher that watches one log file of 1..MaxLines events
InitWatch ==
    /\ InitBuffer(DefaultMaxSize)
    /\ spc = [p \in Producers |-> "idle"]
    /\ scount = [p \in Producers |-> 0]
    /\ sevent = [p \in Producers |-> CHOOSE e \in ExternalEvents : TRUE]
    /\ screated = [p \in Producers |-> 0]
    /\ call = NoRead
    /\ ret = NoResult
    /\ http_queue = HttpIdle
    /\ inv = [i \in Invocations |-> InvIdle]
    /\ line_in = NoLine
    /\ line_out = NotParsed
    /\ \E n \in 1..MaxLines, q \in 1..MaxCap : watcher = NewWatcher(n, q)
    /\ InitBackfill(<<>>, 1, "claude", {})
    /\ InitWalk(FALSE, <<>>)

\* a line of a Claude or a Cursor log with any timestamp value
InitAdapters ==
    /\ InitBuffer(DefaultMaxSize)
    /\ spc = [p \in Producers |-> "idle"]
    /\ scount = [p \in Producers |-> 0]
    /\ sevent = [p \in Producers |-> CHOOSE e \in ExternalEvents : TRUE]
    /\ screated = [p \in Producers |-> 0]
    /\ call = NoRead
    /\ ret = NoResult
    /\ http_queue = HttpIdle
    /\ inv = [i \in Invocations |-> InvIdle]
    /\ line_in \in AdapterLines
    /\ line_out = NotParsed
    /\ watcher = NoWatcher
    /\ InitBackfill(<<>>, 1, "cursor", {})
    /\ InitWalk(FALSE, <<>>)

\* a Copilot chat session file
InitCopilot ==
    /\ InitBuffer(DefaultMaxSize)
    /\ spc = [p \in Producers |-> "idle"]
    /\ scount = [p \in Producers |-> 0]
    /\ sevent = [p \in Producers |-> CHOOSE e \in ExternalEvents : TRUE]
    /\ screated = [p \in Producers |-> 0]
    /\ call = NoRead
    /\ ret = NoResult
    /\ http_queue = HttpIdle
    /\ inv = [i \in Invocations |-> InvIdle]
    /\ line_in \in CopilotLines
    /\ line_out = NotParsed
    /\ watcher = NoWatcher
    /\ InitBackfill(<<>>, 1, "github-copilot", {})
    /\ InitWalk(FALSE, <<>>)

\* a buffer and one event to store in it
InitRoundTrip ==
    /\ \E max \in 1..MaxCap : InitBuffer(max)
    /\ spc = [p \in Producers |-> "idle"]
    /\ scount = [p \in Producers |-> 0]
    /\ \E e \in RoundTripEvents : sevent = [p \in Producers |-> e]
    /\ screated = [p \in Producers |-> 0]
    /\ call = NoRead
    /\ ret = NoResult
    /\ http_queue = HttpIdle
    /\ inv = [i \in Invocations |-> InvIdle]
    /\ line_in = NoLine
    /\ line_out = NotParsed
    /\ watcher = NoWatcher
    /\ InitBackfill(<<>>, 1, "claude", {})
    /\ InitWalk(FALSE, <<>>)

\* buffer.store(&event) of that event
RoundTripStore ==
    /\ spc["http"] = "idle"
    /\ BufStore(sevent["http"])

NextRoundTrip ==
    \/ RoundTripStore
    \/ \E limit \in 0..MaxLimit : BufRetrieve(limit)

NextIngest ==
    \/ \E body \in HttpBodies : HttpPost(body)
    \/ \E body \in HttpBodies : HttpReject(body)
    \/ HttpStoreNext
    \/ HttpRespond
    \/ \E text \in ClientJson : WsStore(text)
    \/ \E text \in ClientJson : WsIgnore(text)

NextRace ==
    \/ \E i \in Invocations : RaceLoad(i)
    \/ \E i \in Invocations : RaceSaveInProgress(i)
    \/ \E i \in Invocations : RaceCheckpoint(i)
    \/ \E i \in Invocations, ok \in BOOLEAN : RaceFinish(i, ok)
    \/ Tick

NextCursor == CursorParse

NextWatch ==
    \/ WatchNotify
    \/ \E task \in watcher.tasks : WatchParse(task)
    \/ \E task \in watcher.tasks : WatchSend(task)
    \/ WatchRecv
    \/ Tick

NextAdapters ==
    \/ AdapterParse
    \/ CopilotParse

NextCopilot == CopilotParse

NextRead ==
    \/ \E e \in ExternalEvents : BufStore(e)
    \/ \E ids \in SUBSET ExternalIds : BufDelete(ids)
    \/ \E limit \in 0..MaxLimit : BufRetrieve(limit)
    \/ BufCount
    \/ Tick

\* the buffer of a process that is restarted with another configuration and
\* whose database may refuse a statement
NextReopen ==
    \/ \E e \in ExternalEvents : BufStore(e)
    \/ \E at \in StoreFailurePoints : BufStoreErr(at)
    \/ \E configured \in 0..MaxCap : BufNew(configured)
    \/ Tick

NextConc ==
    \/ \E p \in Producers, e \in ExternalEvents : StoreCount(p, e)
    \/ \E p \in Producers : StoreEvict(p)
    \/ \E p \in Producers : StoreInsert(p)
    \/ Tick

Spec == Init /\ [][Next]_vars

SpecCrash == Init /\ [][NextCrash]_vars

SpecPaused == InitPaused /\ [][Next]_vars

SpecCrlf == InitCrlf /\ [][NextCrash]_vars

\* backfill_file is one async call that the runtime drives to its end: a step
\* of the invocation that can be taken is taken
SpecNoWriteFailure ==
    Init /\ [][NextNoWriteFailure]_vars /\ WF_vars(StepNoWriteFailure)

SpecReopen == InitBuf /\ [][NextReopen]_vars

SpecDir == InitDir /\ [][NextDir]_vars

SpecBuf == InitBuf /\ [][NextBuf]_vars

SpecRead == InitBuf /\ [][NextRead]_vars

SpecCursor == InitCursor /\ [][NextCursor]_vars

SpecWatch == InitWatch /\ [][NextWatch]_vars

SpecAdapters == InitAdapters /\ [][NextAdapters]_vars

SpecCopilot == InitCopilot /\ [][NextCopilot]_vars

SpecRace == InitBuf /\ [][NextRace]_vars

SpecIngest == InitBuf /\ [][NextIngest]_vars

SpecRoundTrip == InitRoundTrip /\ [][NextRoundTrip]_vars

SpecConc == InitBuf /\ [][NextConc]_vars


(* ============================== claims ================================ *)

\* byte origins of the lines for which the adapter yields an event when the
\* file is read from byte p to its end in one go
RECURSIVE EventOrigins(_, _, _)
EventOrigins(bytes, agent, p) ==
    LET r == NextLine(bytes, p) IN
    IF r = None THEN <<>>
    ELSE (IF ParseLogLine(agent, r[1].line) = "event" THEN <<p>> ELSE <<>>)
             \o EventOrigins(bytes, agent, r[1].next)

\* origins of the events passed to Buffer::store so far, in order (below the
\* default capacity nothing is evicted)
StoredOrigins == [i \in 1..Len(rows) |-> rows[i].data.origin]

ParsingPcs ==
    {"open", "read", "flush", "flush_tail", "checkpoint", "checkpoint_tail",
     "complete", "failed"}

\* C1: with store, delete and clear called one at a time from an empty store,
\* count() <= max_size holds after each store call returns.
C1_CountWithinMaxAfterStore == lastOp = "store" => Count(rows) <= max_size

\* C1 witness: a store returned with the buffer full, after more stores than
\* the capacity
C1_Witness == lastOp = "store" /\ Count(rows) = max_size /\ nextRowId > max_size + 1

\* C2: a store into a full buffer removes exactly the row inserted earliest
\* and appends the new event; nothing else changes.
C2_FullStoreEvictsEarliestThenInserts ==
    [][(lastOp' = "store" /\ nextRowId' = nextRowId + 1 /\ Count(rows) >= max_size)
          => \E e \in ExternalEvents :
                 rows' = Append(Tail(rows),
                                [id |-> nextRowId, event_id |-> e.id,
                                 created_at |-> clock, data |-> ToJson(e)])]_vars

\* C2 witness: capacity 1, store(A) then store(B) left only B
C2_Witness ==
    /\ lastOp = "store"
    /\ max_size = 1
    /\ Count(rows) = 1
    /\ rows[1].id = 2

\* C3: once the file is Completed after crashes and re-invocations, the events
\* stored are exactly those of one uninterrupted run: none twice, none missing.
C3_ResumeStoresExactlyOnce ==
    PersistedStatus = "Completed" => StoredOrigins = EventOrigins(fileBytes, agent_name, 0)

\* C4: when the file is Completed, every line for which the adapter yields an
\* event has been stored at least once.
C4_CompletedImpliesEveryEventStored ==
    PersistedStatus = "Completed"
        => \A i \in 1..Len(EventOrigins(fileBytes, agent_name, 0)) :
               \E j \in 1..Len(rows) :
                   rows[j].data.origin = EventOrigins(fileBytes, agent_name, 0)[i]

\* C4 witness: Completed in a later run, with an event delivered again
C4_Witness ==
    /\ PersistedStatus = "Completed"
    /\ runs >= 2
    /\ Len(rows) > Len(EventOrigins(fileBytes, agent_name, 0))

AllowedTransitions ==
    {<<"New", "InProgress">>, <<"InProgress", "Completed">>,
     <<"InProgress", "Failed">>, <<"Failed", "InProgress">>}

\* C5: every change of the persisted status is New->InProgress,
\* InProgress->Completed, InProgress->Failed or Failed->InProgress.
C5_StatusTransitions ==
    [][\/ PersistedStatus' = PersistedStatus
       \/ <<PersistedStatus, PersistedStatus'>> \in AllowedTransitions]_vars

\* C5 witness: a retry has moved a Failed file back to InProgress
C5_Witness ==
    /\ pc = "open"
    /\ PersistedStatus = "InProgress"
    /\ Persisted.error_message # None

\* C6: backfill on a Completed file returns success and changes neither the
\* persisted state nor the buffer.
C6_CompletedIsNoOp ==
    [][(pc = "idle" /\ PersistedStatus = "Completed" /\ runs' # runs)
          => (table' = table /\ rows' = rows /\ result' = "ok" /\ pc' = "idle")]_vars

\* C6 witness: an invocation took the early return
C6_Witness == lastOp = "already_processed" /\ result = "ok" /\ rows # <<>>

\* C7: while the persisted status is Paused, no backfill step changes the
\* persisted state or stores an event.
C7_PausedIsNotTouched ==
    [][PersistedStatus = "Paused" => (table' = table /\ rows' = rows)]_vars

\* C8: from the opening of the file to the end of the run the persisted
\* status is InProgress.
C8_InProgressPersistedBeforeParsing ==
    pc \in ParsingPcs => PersistedStatus = "InProgress"

\* C8 witness: the first event of a new file is about to be stored
C8_Witness == pc = "flush" /\ k = 1 /\ rows = <<>> /\ runs = 1

\* C9: when no store call is in progress, count() <= max_size, whatever the
\* interleaving of the producers' store calls was.
C9_ConcurrentStoresKeepCapacity ==
    (\A p \in Producers : spc[p] = "idle") => Count(rows) <= max_size

\* what C10 says of the end of a run that failed with error e
FailureRecorded(e) ==
    /\ PersistedStatus' = "Failed"
    /\ Persisted'.error_message = Some(e)
    /\ result' = e
    /\ Persisted'.last_byte_offset = Persisted.last_byte_offset
    /\ Persisted'.total_events_processed = Persisted.total_events_processed

ParseReadStoreErrors == {"parse", "io", "store"}

C11_ResumeReadsFromPersistedOffset ==
    [][/\ (pc = "open" /\ pc' = "read") => pos' = Persisted.last_byte_offset
       /\ (pc = "read" /\ pc' # "idle") => pos' >= pos
       /\ (pc = "read" /\ pc' # "idle" /\ batch' # batch)
              => (Len(batch') = Len(batch) + 1 /\ batch'[Len(batch')].origin = pos)
       /\ (pc \in {"flush", "flush_tail"} /\ rows' # rows)
              => rows'[Len(rows')].data.origin >= state.last_byte_offset]_vars

\* C11 witness: a second invocation on a file left Failed has opened it and
\* stands at the checkpoint, past events of the first run
C11_Witness ==
    /\ pc = "read"
    /\ lastOp = "open_ok"
    /\ runs = 2
    /\ Persisted.error_message # None
    /\ pos = Persisted.last_byte_offset
    /\ pos > 0
    /\ rows # <<>>

\* C12: backfill with an agent name that is not registered returns an error
\* and changes neither the backfill_state table nor the buffer, for a file
\* path and for a directory path.
C12_UnknownAgentMutatesNothing ==
    [][agent_name \notin {"claude", "github-copilot", "cursor"}
          => /\ table' = table
             /\ rows' = rows
             /\ pc' = "idle"
             /\ (runs' # runs => result' = "adapter_not_found")]_vars

\* C12 witness: an unknown agent was refused on a directory that holds log files
C12_Witness ==
    /\ lastOp = "adapter_not_found"
    /\ result = "adapter_not_found"
    /\ is_dir
    /\ WalkFiles(dir_files) # <<>>
    /\ table = {}
    /\ rows = <<>>

\* C13: the persisted last_byte_offset of the (agent, file) row never goes
\* down, from one write to the next, the write at completion included.
C13_OffsetNeverRewound ==
    [][Persisted'.last_byte_offset >= Persisted.last_byte_offset]_vars

\* the prefixes of the file that end after a whole number of lines, read from
\* byte p on: the true end of the prefix, the end as the loop counts it (line
\* length + 1 for each line) and the number of event-producing lines in it
RECURSIVE LinePrefixes(_, _, _, _, _)
LinePrefixes(bytes, agent, p, counted, events) ==
    {[end |-> p, counted |-> counted, events |-> events]} \cup
    (LET r == NextLine(bytes, p) IN
     IF r = None THEN {}
     ELSE LinePrefixes(bytes, agent, r[1].next, counted + Len(r[1].line) + 1,
                       events + (IF ParseLogLine(agent, r[1].line) = "event"
                                 THEN 1 ELSE 0)))

\* C14: every persisted state describes one prefix of whole lines of the file:
\* last_byte_offset is the end of the prefix (as bytes of the file, or as the
\* loop counts them), total_events_processed is the number of event-producing
\* lines of that prefix, and last_timestamp is present exactly when there is
\* such a line.
C14_CheckpointDescribesOnePrefix ==
    \A r \in table :
        \E f \in LinePrefixes(fileBytes, agent_name, 0, 0, 0) :
            /\ r.last_byte_offset \in {f.end, f.counted}
            /\ r.total_events_processed = f.events
            /\ (r.last_timestamp = None) <=> (f.events = 0)

\* C15: when the file is Completed, last_byte_offset is the byte length of
\* the file and total_events_processed is the number of lines for which the
\* adapter yields an event.
C15_CompletedCountsEveryEventLine ==
    PersistedStatus = "Completed"
        => /\ Persisted.last_byte_offset = Len(fileBytes)
           /\ Persisted.total_events_processed
                  = Len(EventOrigins(fileBytes, agent_name, 0))

StreamingPcs == {"read", "flush", "flush_tail", "checkpoint", "checkpoint_tail"}

\* C16: a Copilot chat-session .json file, processed by the adapter that
\* CopilotAdapter registers, is never read line by line.
C16_CopilotJsonNeverStreams ==
    (agent_name = "github-copilot" /\ ExtOf(log_path) = "json") => pc \notin StreamingPcs

\* C17: no line moves a streaming backfill to Failed by its content alone:
\* no run ends on an error of parse_log_line.
C17_NoLineFailsTheParse == ~(pc = "failed" /\ err = "parse")

\* the persisted status of a file of the directory
StatusOfFile(path) == LoadState(table, agent_name, path, 0).status

\* what C18 says of a directory backfill, when the errors in errs are those
\* that leave a file Failed: the files are taken one at a time in the order of
\* the walk; when the invocation returns, the files processed are those of the
\* directory with a log extension, each once, the ones that returned success
\* are Completed and the ones that returned an error of errs are Failed
WalkOutcome(errs) ==
    /\ (is_dir /\ pc \in ParsingPcs \cup {"save_in_progress"})
           => (Len(walk_results) < Len(walk) /\ log_path = walk[Len(walk_results) + 1])
    /\ lastOp = "dir_done"
           => /\ walk = SelectSeq(dir_files,
                         LAMBDA f : ExtOf(f) \in {"log", "txt", "json", "jsonl", "ndjson"})
              /\ Len(walk_results) = Len(walk)
              /\ \A i \in 1..Len(walk) :
                     /\ walk_results[i] = "ok" => StatusOfFile(walk[i]) = "Completed"
                     /\ walk_results[i] \in errs => StatusOfFile(walk[i]) = "Failed"

\* a row that is Completed is left as it is
CompletedRowsStay == \A r \in table : r.status = "completed" => r \in table'

C19_FailedFileMeansErrorReturned ==
    /\ \A r \in table : r.status = "failed" => r.error_message # None
    /\ (pc = "idle" /\ result = "ok") => \A r \in table : r.status # "failed"

\* C20: in every persisted row, completed_at is present exactly when the
\* status is completed.
C20_CompletedAtIffCompleted ==
    \A r \in table : (r.completed_at # None) <=> (r.status = "completed")

\* C20 witness: a file that had failed was completed by a retry
C20_Witness ==
    /\ PersistedStatus = "Completed"
    /\ Persisted.completed_at # None
    /\ Persisted.error_message # None
    /\ runs = 2

(* ------------------------------ C21..C30 ------------------------------ *)

Min(a, b) == IF a < b THEN a ELSE b

\* the ids of the events a retrieve returns
ReturnedIds(r) == [i \in 1..Len(r.events) |-> r.events[i].id]

\* the event ids of the stored rows, in the order of their insertion
InsertedIds(rs) == [i \in 1..Len(rs) |-> rs[i].event_id]

\* C22: in every state, retrieve(limit) succeeds and returns the
\* min(limit, count()) earliest-inserted events, in the order in which they
\* were inserted, whatever the timing of the stores before it.
C22_RetrieveReturnsEarliestInserted ==
    \A limit \in 0..MaxLimit :
        LET r == Retrieve(rows, limit) IN
        /\ r.ok
        /\ ReturnedIds(r) = SubSeq(InsertedIds(rows), 1, Min(limit, Count(rows)))

\* C23: a retrieve or a count leaves the stored rows as they were, and a
\* retrieve(limit) that follows a retrieve(limit) with no write of the store
\* between them returns the same events.
C23_ReadsDoNotChangeTheStore ==
    [][/\ ((\E limit \in 0..MaxLimit : BufRetrieve(limit)) \/ BufCount)
            => (rows' = rows /\ nextRowId' = nextRowId)
       /\ \A limit \in 0..MaxLimit :
            (call.op = "retrieve" /\ call.limit = limit /\ BufRetrieve(limit))
                => ret' = ret]_vars

\* a retrieve has returned some of the stored events and not all of them
C23_Witness ==
    /\ lastOp = "retrieve"
    /\ ret.ok
    /\ Len(ret.events) >= 1
    /\ Count(rows) > Len(ret.events)

\* C24: delete(ids) removes every stored event whose id is in ids and no
\* other, keeping the order of the rest; with no ids it changes nothing; ids
\* that are not stored are ignored; a retrieve after it returns no event
\* whose id is in ids.
C24_DeleteRemovesExactlyTheIds ==
    [][\A ids \in SUBSET ExternalIds :
          BufDelete(ids) =>
             /\ rows' = SelectSeq(rows, LAMBDA r : r.event_id \notin ids)
             /\ (ids = {} => rows' = rows)
             /\ ((\A i \in 1..Len(rows) : rows[i].event_id \notin ids) => rows' = rows)
             /\ ret'.ok
             /\ LET r == Retrieve(rows', Count(rows')) IN
                \A i \in 1..Len(r.events) : r.events[i].id \notin ids]_vars

\* a delete has removed some of the events that were stored and left another
C24_Witness ==
    /\ lastOp = "delete"
    /\ max_size >= nextRowId - 1
    /\ Count(rows) >= 1
    /\ Count(rows) < nextRowId - 1

\* C25: every event that retrieve returns after store(e) equals e in every
\* field, and the optional fields that e leaves absent (machine_id,
\* workspace_id, legacy_project_id, metrics, and each field of metrics) are
\* absent in it.
C25_StoreRetrieveRoundTrip ==
    (lastOp = "retrieve") =>
        /\ ret.ok
        /\ Len(ret.events) = Min(call.limit, Count(rows))
        /\ \A i \in 1..Len(ret.events) :
             LET e == sevent["http"]
                 r == ret.events[i]
             IN /\ r = e
                /\ \A f \in OptionFields : (e[f] = None) => (r[f] = None)
                /\ (e.metrics # None) =>
                     \A f \in MetricsFields :
                        (e.metrics[1][f] = None) => (r.metrics[1][f] = None)

\* an event with some optional fields absent and some present, a metrics
\* record with some fields absent and some present, has been stored and
\* retrieved
C25_Witness ==
    /\ lastOp = "retrieve"
    /\ Len(ret.events) >= 1
    /\ sevent["http"].machine_id = None
    /\ sevent["http"].workspace_id # None
    /\ sevent["http"].context = EmptyMap
    /\ sevent["http"].metrics # None
    /\ sevent["http"].metrics[1].cost = None
    /\ sevent["http"].metrics[1].prompt_tokens # None

\* C21: every event held in the Buffer Store has an event_type of the fixed
\* enumeration (an event of another type was dropped before store, on
\* every ingestion path).
C21_StoredEventTypesAreEnumerated ==
    \A i \in 1..Len(rows) :
        /\ FromJson(rows[i].data) # None
        /\ FromJson(rows[i].data)[1].event_type \in EventTypes

\* what a read of the whole buffer returns
ReadAll(rs) == Retrieve(rs, Count(rs)).events

\* C28: each round of the loop of ingest_events passes to store the next
\* event of the posted array, in array order, and the request ends only
\* when all have been passed; while the store is below capacity the event
\* stored is then returned by a read of the buffer, after the events that
\* were there (so one event posted to an empty buffer yields exactly that
\* event, with its id).
C28_PostedEventsStoredInArrayOrder ==
    [][/\ HttpStoreNext =>
            LET e == http_queue.events[http_queue.done + 1] IN
            /\ http_queue'.done = http_queue.done + 1
            /\ http_queue'.events = http_queue.events
            /\ rows'[Len(rows')].event_id = e.id
            /\ rows'[Len(rows')].data = ToJson(e)
            /\ (Count(rows) < max_size) =>
                  /\ ReadAll(rows') = ReadAll(rows) \o <<e>>
                  /\ ReadAll(rows')[Len(rows')].id = e.id
       /\ HttpRespond => http_queue.done = Len(http_queue.events)]_vars

\* a request with two different events has passed both to store and both
\* are held
C28_Witness ==
    /\ http_queue.open
    /\ Len(http_queue.events) = 2
    /\ http_queue.done = 2
    /\ http_queue.events[1].id # http_queue.events[2].id
    /\ Count(rows) >= 2
    /\ ReadAll(rows)[Count(rows)] = http_queue.events[2]
    /\ ReadAll(rows)[Count(rows) - 1] = http_queue.events[1]

\* the events of the batch are in the order of the lines they were parsed
\* from
BatchInFileOrder(b) ==
    \A i, j \in 1..Len(b) : i < j => b[i].origin < b[j].origin

\* C26: within one backfill of a file, a store passes the next event of the
\* batch, the batch holding the events in the order the adapter produced
\* them, and every stored event of the invocation comes from an earlier line
\* than it; the checkpoint write comes when every event of the batch has
\* been stored, nothing is stored while it is pending, and the next store
\* follows only after it succeeded and the batch was emptied.
C26_StoresInOrderCheckpointBetweenBatches ==
    [][/\ StoreBatchEvent(TRUE) =>
            /\ BatchInFileOrder(batch)
            /\ rows'[Len(rows')].event_id = batch[k].id
            /\ \A i \in 1..Len(rows) :
                  (rows[i].event_id[1] = runs) =>
                      rows[i].event_id[2] < batch[k].id[2]
            /\ IF k < Len(batch)
               THEN k' = k + 1 /\ pc' = pc
               ELSE pc' \in {"checkpoint", "checkpoint_tail"}
       /\ (pc \in {"checkpoint", "checkpoint_tail"}) =>
            /\ k = Len(batch)
            /\ rows' = rows
            /\ pc' \in {"checkpoint", "checkpoint_tail", "read", "complete", "failed", "idle"}
            /\ (pc' = "read") => (batch' = <<>> /\ SaveCheckpoint(TRUE))
       /\ (pc' \in {"flush", "flush_tail"} /\ pc \notin {"flush", "flush_tail"})
            => (pc = "read" /\ k' = 1)]_vars

\* a batch of two events has been stored, first event first, and its
\* checkpoint write is due
C26_Witness ==
    /\ pc = "checkpoint"
    /\ Len(batch) = 2
    /\ Count(rows) >= 2
    /\ rows[Count(rows) - 1].event_id = batch[1].id
    /\ rows[Count(rows)].event_id = batch[2].id

\* C27: the backfill_state table never holds two rows with the same
\* (agent_name, log_file_path), also when two invocations on the same agent
\* and file interleave their load_state and save_state.
C27_OneRowPerAgentAndFile ==
    \A r1, r2 \in table :
        (r1.agent_name = r2.agent_name /\ r1.log_file_path = r2.log_file_path)
            => r1 = r2

\* both invocations loaded the state before a row existed; one inserted the
\* row and the INSERT of the other was refused
C27_Witness ==
    /\ \E i \in Invocations : inv[i].err = "unique"
    /\ Cardinality(table) = 1

\* the line is a Cursor log entry with a type, a session_id, a prompt and
\* prompt_tokens, and has been parsed
C29_Case ==
    /\ line_out.done
    /\ line_in.kind = "entry"
    /\ line_in.entry.event_type # None
    /\ line_in.entry.session_id # None
    /\ line_in.entry.prompt # None
    /\ line_in.entry.prompt_tokens # None

\* the event carries the session_id and the prompt_tokens of the line
C29_SessionAndTokens ==
    /\ line_out.event # None
    /\ line_out.event[1].session_id = line_in.entry.session_id[1]
    /\ line_out.event[1].metrics # None
    /\ line_out.event[1].metrics[1].prompt_tokens = line_in.entry.prompt_tokens

\* the event carries the prompt of the line
C29_HasPrompt ==
    /\ "prompt" \in DOMAIN line_out.event[1].data
    /\ line_out.event[1].data["prompt"] = line_in.entry.prompt[1]

C30_RawLogIsTheLineVerbatim ==
    (line_out.done /\ line_in.kind = "text") =>
        IF HasKeyword(line_in.text)
        THEN /\ line_out.event # None
             /\ line_out.event[1].event_type = "user_interaction"
             /\ line_out.event[1].data["rawLog"] = line_in.text
        ELSE line_out.event = None

(* ------------------------------ C31..C40 ------------------------------ *)

\* the byte positions at which a line of the file starts, and its end
LineStarts(bytes) == {f.end : f \in LinePrefixes(bytes, "claude", 0, 0, 0)}

\* C36: every persisted last_byte_offset lies between 0 and the byte length
\* of the file and is the byte position at which the next unread line
\* starts (the end of the file when no line is left), whether or not the
\* last line ends in a newline.
C36_OffsetWithinFileAtLineStart ==
    \A r \in table :
        /\ 0 <= r.last_byte_offset
        /\ r.last_byte_offset <= Len(fileBytes)
        /\ r.last_byte_offset \in LineStarts(fileBytes)

\* C35: when the file is Completed, total_events_processed is the number of
\* events one uninterrupted run over the file produces, also after attempts
\* that failed or crashed part-way and were retried.
C35_CompletedTotalIsOneRun ==
    PersistedStatus = "Completed"
        => Persisted.total_events_processed
               = Len(EventOrigins(fileBytes, agent_name, 0))

\* C39: in every persisted backfill state error_message is present only
\* while status is Failed; a retry that moves the file to InProgress and then
\* Completed leaves no error_message of the earlier failure.
C39_ErrorMessageOnlyWhileFailed ==
    \A r \in table : r.error_message # None => r.status = "failed"

C37_StoreRestoresCapacity ==
    [][(lastOp' = "store" /\ Count(rows) > max_size) => Count(rows') <= max_size]_vars

\* C38: a store call that returns an error leaves the rows of the store as
\* they were: no eviction without its insert.
C38_FailedStoreChangesNothing ==
    [][lastOp' = "store_err" => rows' = rows]_vars

\* the events of request number i among the events parse_log_file returned
EventsOfRequest(i) == SelectSeq(line_out.events, LAMBDA e : e.request = i)

\* C32: for each request of a Copilot session file that is not cancelled the
\* sub-events are emitted in an order in which their timestamps never
\* decrease, each being the request's timestamp plus a fixed delta >= 0,
\* whatever the order of the items of the response list; the request event
\* is first and the response event last; a cancelled request emits nothing.
C32_SubEventsInTimestampOrder ==
    (line_out.done /\ ~line_out.panicked) =>
        \A i \in 1..Len(line_in.session) :
            LET es == EventsOfRequest(i) IN
            IF line_in.session[i].is_canceled THEN es = <<>>
            ELSE /\ Len(es) >= 2
                 /\ es[1].event_type = "llm_request"
                 /\ es[Len(es)].event_type = "llm_response"
                 /\ \A a \in 1..Len(es) :
                        /\ es[a].timestamp.base = es[1].timestamp.base
                        /\ es[a].timestamp.plus >= 0
                 /\ \A a, b \in 1..Len(es) :
                        a < b => es[a].timestamp.plus <= es[b].timestamp.plus

\* C31: timestamp normalisation never aborts the parse: whatever the value
\* of the timestamp (a string, an integer however large or negative, another
\* number, null, another type), the parse call returns, a line for which an
\* event type is detected yields its event with the instant the value
\* denotes or the current time, and a Copilot request that is not cancelled
\* yields its events.
C31_TimestampNeverAbortsParsing ==
    line_out.done =>
        /\ ~line_out.panicked
        /\ (line_in.kind = "entry" /\ line_out.detected # None)
               => /\ line_out.event # None
                  /\ line_out.event[1].timestamp \in {line_in.entry.timestamp, Now}
        /\ line_in.kind = "session"
               => \A i \in 1..Len(line_in.session) :
                      ~line_in.session[i].is_canceled => EventsOfRequest(i) # <<>>

\* the canonical type of the type strings and aliases an adapter knows
C34_Canonical(agent) ==
    [t \in {"llm_request", "prompt", "llm_response", "completion", "tool_use",
            "tool_call", "file_read", "file_write", "file_modify"}
            \cup (IF agent = "cursor"
                  THEN {"completion_request", "completion_response"} ELSE {})
        |-> CASE t \in {"llm_request", "prompt", "completion_request"} -> "llm_request"
              [] t \in {"llm_response", "completion", "completion_response"}
                     -> "llm_response"
              [] t \in {"tool_use", "tool_call"} -> "tool_use"
              [] t = "file_read" -> "file_read"
              [] t \in {"file_write", "file_modify"} -> "file_write"]

\* what the heuristics look at: the prompt or a request keyword, the response
\* or a response keyword, the tool or the tool keyword, and, for an entry
\* with a file and an operation on it, read and write
C34_RequestCue(e) ==
    \/ e.prompt # None
    \/ MessageContains(e.message, "prompt")
    \/ MessageContains(e.message, "request")

C34_ResponseCue(e) ==
    \/ e.response # None
    \/ MessageContains(e.message, "response")
    \/ MessageContains(e.message, "completion")

C34_ToolCue(agent, e) ==
    \/ (IF agent = "claude" THEN e.tool_name ELSE e.tool) # None
    \/ MessageContains(e.message, "tool")

C34_FileOperation(agent, e) ==
    IF agent = "claude" THEN <<e.file_path, e.action>> ELSE <<e.file, e.operation>>

C34_ReadCue(agent, e) ==
    LET fo == C34_FileOperation(agent, e) IN
    /\ fo[1] # None
    /\ fo[2] # None
    /\ (fo[2] = Some("read") \/ MessageContains(e.message, "read"))

C34_WriteCue(agent, e) ==
    LET fo == C34_FileOperation(agent, e) IN
    /\ fo[1] # None
    /\ fo[2] # None
    /\ \/ fo[2] = Some("write")
       \/ MessageContains(e.message, "write")
       \/ (agent = "claude" /\ MessageContains(e.message, "modify"))

\* C34: detection looks at the explicit type first and, when it is a type or
\* alias the adapter knows, gives its canonical type whatever the other
\* fields hold; otherwise the heuristics are tried in the order request,
\* response, tool, file read, file write; when nothing matches
\* parse_log_line returns without an event and without an error.
C34_ExplicitTypeThenHeuristicsInOrder ==
    (line_out.done /\ line_in.kind = "entry") =>
        LET a == line_in.agent
            e == line_in.entry
            t == IF e.event_type = None THEN "" ELSE e.event_type[1]
            d == line_out.detected
        IN
        IF t \in DOMAIN C34_Canonical(a) THEN d = Some(C34_Canonical(a)[t])
        ELSE IF C34_RequestCue(e) THEN d = Some("llm_request")
        ELSE IF C34_ResponseCue(e) THEN d = Some("llm_response")
        ELSE IF C34_ToolCue(a, e) THEN d = Some("tool_use")
        ELSE IF C34_ReadCue(a, e) THEN d = Some("file_read")
        ELSE IF C34_WriteCue(a, e) THEN d = Some("file_write")
        ELSE d = None /\ ~line_out.panicked /\ line_out.event = None

\* C34 witness: a Claude line of explicit type tool_call that also has a
\* prompt, a response and a file that is read has been parsed as a tool_use
C34_Witness ==
    /\ line_out.done
    /\ line_in.kind = "entry"
    /\ line_in.agent = "claude"
    /\ line_in.entry.event_type = Some("tool_call")
    /\ line_in.entry.prompt # None
    /\ line_in.entry.response # None
    /\ line_in.entry.action = Some("read")
    /\ line_out.detected = Some("tool_use")
    /\ line_out.event # None

\* C33: notifications of changes of the watched file that arrive within the
\* debounce window (here: at the same instant) make the watcher parse the
\* file, and send its events to the queue, at most once.
C33_OneParsePerDebounceWindow ==
    \A i, j \in 1..Len(watcher.parsed) :
        i # j => watcher.parsed[i] # watcher.parsed[j]


====
